---------------------------- MODULE Spec2Model ----------------------------
(***************************************************************************)
(* A model of bevy_marching_cubes: the corner classification and per-voxel *)
(* extraction (utils.rs, interp.rs), the copy-on-write voxel grid          *)
(* (chunk.rs), the mesh builder (mesh.rs) and the slab-parallel and        *)
(* asynchronous scheduling of extraction (plugin.rs).                      *)
(*                                                                         *)
(* Scalars (f32/f64 in the source) are modelled as exact rationals         *)
(* <<n, d>> in lowest terms with d > 0; the non-finite IEEE values are     *)
(* <<1, 0>> (+inf), <<-1, 0>> (-inf) and <<0, 0>> (NaN).  Rounding is not  *)
(* modelled.  Grid samples and thresholds are integer-valued scalars.      *)
(***************************************************************************)
EXTENDS Integers, Sequences, FiniteSets, TLC

VARIABLES
  \* ---- direct calls of get_state (utils.rs)
  gs_corners,      \* the eval_corners argument
  gs_threshold,    \* the threshold argument
  gs_result,       \* "none" before the call, then the Result returned
  \* ---- one Chunk and the Arcs to value storages (chunk.rs)
  chunk,           \* the Chunk value, or "none" / "panicked"
  heap,            \* allocation id -> Vec<Vec<Vec<Value>>> (absent ids are free)
  holders,         \* other Arc handles: holder -> allocation id, or 0 for none
  build,           \* "debug" or "release": whether debug_assert! is compiled in
  ops,             \* number of builder and write calls made so far
  last_op,         \* the last Chunk operation and its arguments
  \* ---- the ECS pipeline of the plugin (plugin.rs)
  ents,            \* entity -> its components
  config,          \* MarchingCubesConfig.max_tasks_per_frame
  phase,           \* the next system set of the running tick
  added_ran,       \* whether on_chunk_add already ran in this tick
  tasks,           \* task id -> [entity, status, taken]
  last_sys,        \* the last system that ran, with what it acted on
  \* ---- one call of run_marching_cubes (plugin.rs)
  grid,            \* [size_x, size_y, size_z, scale, threshold, values]
  slab,            \* x -> "todo" | "running" | "done"
  per_x,           \* x -> the slab's private vertex list
  finished,        \* the slice indices in the order their slabs completed
  mc_pc,           \* "slabs" | "merged"
  mesh,            \* the GeneratedMesh returned, or "none"
  prev_mesh,       \* the GeneratedMesh of the previous run on the same grid
  \* ---- one MarchMesh under construction (mesh.rs)
  mm,              \* the MarchMesh: vertices, tris, normals
  mm_hist,         \* the methods called on it after set_vertices, in order
  mm_last          \* the last call: its arguments, its result, the tris before it

gsVars == <<gs_corners, gs_threshold, gs_result>>
chVars == <<chunk, heap, holders, build, ops, last_op>>
plVars == <<ents, config, phase, added_ran, tasks, last_sys>>
mcVars == <<grid, slab, per_x, finished, mc_pc, mesh, prev_mesh>>
mmVars == <<mm, mm_hist, mm_last>>
vars == <<gsVars, chVars, plVars, mcVars, mmVars>>

-----------------------------------------------------------------------------
(* Scalars *)

Abs(i) == IF i < 0 THEN -i ELSE i
Sgn(i) == IF i < 0 THEN -1 ELSE IF i > 0 THEN 1 ELSE 0

RECURSIVE Gcd(_, _)
Gcd(a, b) == IF b = 0 THEN a ELSE Gcd(b, a % b)

\* The rational n/d (d # 0) in lowest terms with a positive denominator.
Norm(n, d) ==
  LET g == Gcd(Abs(n), Abs(d))
  IN  <<Sgn(d) * (n \div g), Abs(d) \div g>>

R(i) == <<i, 1>>
NaN == <<0, 0>>
IsFinite(a) == a[2] # 0

RNeg(a) == <<-a[1], a[2]>>

RAdd(a, b) ==
  IF IsFinite(a) /\ IsFinite(b) THEN Norm(a[1] * b[2] + b[1] * a[2], a[2] * b[2])
  ELSE IF IsFinite(a) THEN b
  ELSE IF IsFinite(b) THEN a
  ELSE IF a = b THEN a ELSE NaN

RSub(a, b) == RAdd(a, RNeg(b))

RMul(a, b) ==
  IF IsFinite(a) /\ IsFinite(b) THEN Norm(a[1] * b[1], a[2] * b[2])
  ELSE <<Sgn(a[1]) * Sgn(b[1]), 0>>

RDiv(a, b) ==
  IF IsFinite(a) /\ IsFinite(b)
    THEN IF b[1] = 0 THEN <<Sgn(a[1]), 0>> ELSE Norm(a[1] * b[2], a[2] * b[1])
  ELSE IF IsFinite(b) THEN <<a[1] * (IF b[1] < 0 THEN -1 ELSE 1), 0>>
  ELSE IF IsFinite(a) THEN R(0)
  ELSE NaN

RLe(a, b) == a[1] * b[2] <= b[1] * a[2]

-----------------------------------------------------------------------------
(* interp.rs *)

find_t(v0, v1, iso_val) == RDiv(RSub(iso_val, v0), RSub(v1, v0))

lerp(a, b, t) == RAdd(a, RMul(RSub(b, a), t))

interpolate_points(p0, p1, t) == [k \in 1..3 |-> lerp(p0[k], p1[k], t)]

-----------------------------------------------------------------------------
(* tables.rs: the lookup tables of the classic algorithm *)

CORNER_POINT_INDICES ==
  << <<0, 1>>, <<1, 2>>, <<2, 3>>, <<3, 0>>, <<4, 5>>, <<5, 6>>,
     <<6, 7>>, <<7, 4>>, <<0, 4>>, <<1, 5>>, <<2, 6>>, <<3, 7>> >>

EDGE_TABLE ==
  << 0, 265, 515, 778, 1030, 1295, 1541, 1804, 2060, 2309, 2575, 2822, 3082, 3331, 3593, 3840,
     400, 153, 915, 666, 1430, 1183, 1941, 1692, 2460, 2197, 2975, 2710, 3482, 3219, 3993, 3728,
     560, 825, 51, 314, 1590, 1855, 1077, 1340, 2620, 2869, 2111, 2358, 3642, 3891, 3129, 3376,
     928, 681, 419, 170, 1958, 1711, 1445, 1196, 2988, 2725, 2479, 2214, 4010, 3747, 3497, 3232,
     1120, 1385, 1635, 1898, 102, 367, 613, 876, 3180, 3429, 3695, 3942, 2154, 2403, 2665, 2912,
     1520, 1273, 2035, 1786, 502, 255, 1013, 764, 3580, 3317, 4095, 3830, 2554, 2291, 3065, 2800,
     1616, 1881, 1107, 1370, 598, 863, 85, 348, 3676, 3925, 3167, 3414, 2650, 2899, 2137, 2384,
     1984, 1737, 1475, 1226, 966, 719, 453, 204, 4044, 3781, 3535, 3270, 3018, 2755, 2505, 2240,
     2240, 2505, 2755, 3018, 3270, 3535, 3781, 4044, 204, 453, 719, 966, 1226, 1475, 1737, 1984,
     2384, 2137, 2899, 2650, 3414, 3167, 3925, 3676, 348, 85, 863, 598, 1370, 1107, 1881, 1616,
     2800, 3065, 2291, 2554, 3830, 4095, 3317, 3580, 764, 1013, 255, 502, 1786, 2035, 1273, 1520,
     2912, 2665, 2403, 2154, 3942, 3695, 3429, 3180, 876, 613, 367, 102, 1898, 1635, 1385, 1120,
     3232, 3497, 3747, 4010, 2214, 2479, 2725, 2988, 1196, 1445, 1711, 1958, 170, 419, 681, 928,
     3376, 3129, 3891, 3642, 2358, 2111, 2869, 2620, 1340, 1077, 1855, 1590, 314, 51, 825, 560,
     3728, 3993, 3219, 3482, 2710, 2975, 2197, 2460, 1692, 1941, 1183, 1430, 666, 915, 153, 400,
     3840, 3593, 3331, 3082, 2822, 2575, 2309, 2060, 1804, 1541, 1295, 1030, 778, 515, 265, 0 >>

TRI_TABLE ==
  << <<-1, -1, -1, -1, -1, -1, -1, -1, -1, -1, -1, -1, -1, -1, -1, -1>>,
     <<0, 8, 3, -1, -1, -1, -1, -1, -1, -1, -1, -1, -1, -1, -1, -1>>,
     <<0, 1, 9, -1, -1, -1, -1, -1, -1, -1, -1, -1, -1, -1, -1, -1>>,
     <<1, 8, 3, 9, 8, 1, -1, -1, -1, -1, -1, -1, -1, -1, -1, -1>>,
     <<1, 2, 10, -1, -1, -1, -1, -1, -1, -1, -1, -1, -1, -1, -1, -1>>,
     <<0, 8, 3, 1, 2, 10, -1, -1, -1, -1, -1, -1, -1, -1, -1, -1>>,
     <<9, 2, 10, 0, 2, 9, -1, -1, -1, -1, -1, -1, -1, -1, -1, -1>>,
     <<2, 8, 3, 2, 10, 8, 10, 9, 8, -1, -1, -1, -1, -1, -1, -1>>,
     <<3, 11, 2, -1, -1, -1, -1, -1, -1, -1, -1, -1, -1, -1, -1, -1>>,
     <<0, 11, 2, 8, 11, 0, -1, -1, -1, -1, -1, -1, -1, -1, -1, -1>>,
     <<1, 9, 0, 2, 3, 11, -1, -1, -1, -1, -1, -1, -1, -1, -1, -1>>,
     <<1, 11, 2, 1, 9, 11, 9, 8, 11, -1, -1, -1, -1, -1, -1, -1>>,
     <<3, 10, 1, 11, 10, 3, -1, -1, -1, -1, -1, -1, -1, -1, -1, -1>>,
     <<0, 10, 1, 0, 8, 10, 8, 11, 10, -1, -1, -1, -1, -1, -1, -1>>,
     <<3, 9, 0, 3, 11, 9, 11, 10, 9, -1, -1, -1, -1, -1, -1, -1>>,
     <<9, 8, 10, 10, 8, 11, -1, -1, -1, -1, -1, -1, -1, -1, -1, -1>>,
     <<4, 7, 8, -1, -1, -1, -1, -1, -1, -1, -1, -1, -1, -1, -1, -1>>,
     <<4, 3, 0, 7, 3, 4, -1, -1, -1, -1, -1, -1, -1, -1, -1, -1>>,
     <<0, 1, 9, 8, 4, 7, -1, -1, -1, -1, -1, -1, -1, -1, -1, -1>>,
     <<4, 1, 9, 4, 7, 1, 7, 3, 1, -1, -1, -1, -1, -1, -1, -1>>,
     <<1, 2, 10, 8, 4, 7, -1, -1, -1, -1, -1, -1, -1, -1, -1, -1>>,
     <<3, 4, 7, 3, 0, 4, 1, 2, 10, -1, -1, -1, -1, -1, -1, -1>>,
     <<9, 2, 10, 9, 0, 2, 8, 4, 7, -1, -1, -1, -1, -1, -1, -1>>,
     <<2, 10, 9, 2, 9, 7, 2, 7, 3, 7, 9, 4, -1, -1, -1, -1>>,
     <<8, 4, 7, 3, 11, 2, -1, -1, -1, -1, -1, -1, -1, -1, -1, -1>>,
     <<11, 4, 7, 11, 2, 4, 2, 0, 4, -1, -1, -1, -1, -1, -1, -1>>,
     <<9, 0, 1, 8, 4, 7, 2, 3, 11, -1, -1, -1, -1, -1, -1, -1>>,
     <<4, 7, 11, 9, 4, 11, 9, 11, 2, 9, 2, 1, -1, -1, -1, -1>>,
     <<3, 10, 1, 3, 11, 10, 7, 8, 4, -1, -1, -1, -1, -1, -1, -1>>,
     <<1, 11, 10, 1, 4, 11, 1, 0, 4, 7, 11, 4, -1, -1, -1, -1>>,
     <<4, 7, 8, 9, 0, 11, 9, 11, 10, 11, 0, 3, -1, -1, -1, -1>>,
     <<4, 7, 11, 4, 11, 9, 9, 11, 10, -1, -1, -1, -1, -1, -1, -1>>,
     <<9, 5, 4, -1, -1, -1, -1, -1, -1, -1, -1, -1, -1, -1, -1, -1>>,
     <<9, 5, 4, 0, 8, 3, -1, -1, -1, -1, -1, -1, -1, -1, -1, -1>>,
     <<0, 5, 4, 1, 5, 0, -1, -1, -1, -1, -1, -1, -1, -1, -1, -1>>,
     <<8, 5, 4, 8, 3, 5, 3, 1, 5, -1, -1, -1, -1, -1, -1, -1>>,
     <<1, 2, 10, 9, 5, 4, -1, -1, -1, -1, -1, -1, -1, -1, -1, -1>>,
     <<3, 0, 8, 1, 2, 10, 4, 9, 5, -1, -1, -1, -1, -1, -1, -1>>,
     <<5, 2, 10, 5, 4, 2, 4, 0, 2, -1, -1, -1, -1, -1, -1, -1>>,
     <<2, 10, 5, 3, 2, 5, 3, 5, 4, 3, 4, 8, -1, -1, -1, -1>>,
     <<9, 5, 4, 2, 3, 11, -1, -1, -1, -1, -1, -1, -1, -1, -1, -1>>,
     <<0, 11, 2, 0, 8, 11, 4, 9, 5, -1, -1, -1, -1, -1, -1, -1>>,
     <<0, 5, 4, 0, 1, 5, 2, 3, 11, -1, -1, -1, -1, -1, -1, -1>>,
     <<2, 1, 5, 2, 5, 8, 2, 8, 11, 4, 8, 5, -1, -1, -1, -1>>,
     <<10, 3, 11, 10, 1, 3, 9, 5, 4, -1, -1, -1, -1, -1, -1, -1>>,
     <<4, 9, 5, 0, 8, 1, 8, 10, 1, 8, 11, 10, -1, -1, -1, -1>>,
     <<5, 4, 0, 5, 0, 11, 5, 11, 10, 11, 0, 3, -1, -1, -1, -1>>,
     <<5, 4, 8, 5, 8, 10, 10, 8, 11, -1, -1, -1, -1, -1, -1, -1>>,
     <<9, 7, 8, 5, 7, 9, -1, -1, -1, -1, -1, -1, -1, -1, -1, -1>>,
     <<9, 3, 0, 9, 5, 3, 5, 7, 3, -1, -1, -1, -1, -1, -1, -1>>,
     <<0, 7, 8, 0, 1, 7, 1, 5, 7, -1, -1, -1, -1, -1, -1, -1>>,
     <<1, 5, 3, 3, 5, 7, -1, -1, -1, -1, -1, -1, -1, -1, -1, -1>>,
     <<9, 7, 8, 9, 5, 7, 10, 1, 2, -1, -1, -1, -1, -1, -1, -1>>,
     <<10, 1, 2, 9, 5, 0, 5, 3, 0, 5, 7, 3, -1, -1, -1, -1>>,
     <<8, 0, 2, 8, 2, 5, 8, 5, 7, 10, 5, 2, -1, -1, -1, -1>>,
     <<2, 10, 5, 2, 5, 3, 3, 5, 7, -1, -1, -1, -1, -1, -1, -1>>,
     <<7, 9, 5, 7, 8, 9, 3, 11, 2, -1, -1, -1, -1, -1, -1, -1>>,
     <<9, 5, 7, 9, 7, 2, 9, 2, 0, 2, 7, 11, -1, -1, -1, -1>>,
     <<2, 3, 11, 0, 1, 8, 1, 7, 8, 1, 5, 7, -1, -1, -1, -1>>,
     <<11, 2, 1, 11, 1, 7, 7, 1, 5, -1, -1, -1, -1, -1, -1, -1>>,
     <<9, 5, 8, 8, 5, 7, 10, 1, 3, 10, 3, 11, -1, -1, -1, -1>>,
     <<5, 7, 0, 5, 0, 9, 7, 11, 0, 1, 0, 10, 11, 10, 0, -1>>,
     <<11, 10, 0, 11, 0, 3, 10, 5, 0, 8, 0, 7, 5, 7, 0, -1>>,
     <<11, 10, 5, 7, 11, 5, -1, -1, -1, -1, -1, -1, -1, -1, -1, -1>>,
     <<10, 6, 5, -1, -1, -1, -1, -1, -1, -1, -1, -1, -1, -1, -1, -1>>,
     <<0, 8, 3, 5, 10, 6, -1, -1, -1, -1, -1, -1, -1, -1, -1, -1>>,
     <<9, 0, 1, 5, 10, 6, -1, -1, -1, -1, -1, -1, -1, -1, -1, -1>>,
     <<1, 8, 3, 1, 9, 8, 5, 10, 6, -1, -1, -1, -1, -1, -1, -1>>,
     <<1, 6, 5, 2, 6, 1, -1, -1, -1, -1, -1, -1, -1, -1, -1, -1>>,
     <<1, 6, 5, 1, 2, 6, 3, 0, 8, -1, -1, -1, -1, -1, -1, -1>>,
     <<9, 6, 5, 9, 0, 6, 0, 2, 6, -1, -1, -1, -1, -1, -1, -1>>,
     <<5, 9, 8, 5, 8, 2, 5, 2, 6, 3, 2, 8, -1, -1, -1, -1>>,
     <<2, 3, 11, 10, 6, 5, -1, -1, -1, -1, -1, -1, -1, -1, -1, -1>>,
     <<11, 0, 8, 11, 2, 0, 10, 6, 5, -1, -1, -1, -1, -1, -1, -1>>,
     <<0, 1, 9, 2, 3, 11, 5, 10, 6, -1, -1, -1, -1, -1, -1, -1>>,
     <<5, 10, 6, 1, 9, 2, 9, 11, 2, 9, 8, 11, -1, -1, -1, -1>>,
     <<6, 3, 11, 6, 5, 3, 5, 1, 3, -1, -1, -1, -1, -1, -1, -1>>,
     <<0, 8, 11, 0, 11, 5, 0, 5, 1, 5, 11, 6, -1, -1, -1, -1>>,
     <<3, 11, 6, 0, 3, 6, 0, 6, 5, 0, 5, 9, -1, -1, -1, -1>>,
     <<6, 5, 9, 6, 9, 11, 11, 9, 8, -1, -1, -1, -1, -1, -1, -1>>,
     <<5, 10, 6, 4, 7, 8, -1, -1, -1, -1, -1, -1, -1, -1, -1, -1>>,
     <<4, 3, 0, 4, 7, 3, 6, 5, 10, -1, -1, -1, -1, -1, -1, -1>>,
     <<1, 9, 0, 5, 10, 6, 8, 4, 7, -1, -1, -1, -1, -1, -1, -1>>,
     <<10, 6, 5, 1, 9, 7, 1, 7, 3, 7, 9, 4, -1, -1, -1, -1>>,
     <<6, 1, 2, 6, 5, 1, 4, 7, 8, -1, -1, -1, -1, -1, -1, -1>>,
     <<1, 2, 5, 5, 2, 6, 3, 0, 4, 3, 4, 7, -1, -1, -1, -1>>,
     <<8, 4, 7, 9, 0, 5, 0, 6, 5, 0, 2, 6, -1, -1, -1, -1>>,
     <<7, 3, 9, 7, 9, 4, 3, 2, 9, 5, 9, 6, 2, 6, 9, -1>>,
     <<3, 11, 2, 7, 8, 4, 10, 6, 5, -1, -1, -1, -1, -1, -1, -1>>,
     <<5, 10, 6, 4, 7, 2, 4, 2, 0, 2, 7, 11, -1, -1, -1, -1>>,
     <<0, 1, 9, 4, 7, 8, 2, 3, 11, 5, 10, 6, -1, -1, -1, -1>>,
     <<9, 2, 1, 9, 11, 2, 9, 4, 11, 7, 11, 4, 5, 10, 6, -1>>,
     <<8, 4, 7, 3, 11, 5, 3, 5, 1, 5, 11, 6, -1, -1, -1, -1>>,
     <<5, 1, 11, 5, 11, 6, 1, 0, 11, 7, 11, 4, 0, 4, 11, -1>>,
     <<0, 5, 9, 0, 6, 5, 0, 3, 6, 11, 6, 3, 8, 4, 7, -1>>,
     <<6, 5, 9, 6, 9, 11, 4, 7, 9, 7, 11, 9, -1, -1, -1, -1>>,
     <<10, 4, 9, 6, 4, 10, -1, -1, -1, -1, -1, -1, -1, -1, -1, -1>>,
     <<4, 10, 6, 4, 9, 10, 0, 8, 3, -1, -1, -1, -1, -1, -1, -1>>,
     <<10, 0, 1, 10, 6, 0, 6, 4, 0, -1, -1, -1, -1, -1, -1, -1>>,
     <<8, 3, 1, 8, 1, 6, 8, 6, 4, 6, 1, 10, -1, -1, -1, -1>>,
     <<1, 4, 9, 1, 2, 4, 2, 6, 4, -1, -1, -1, -1, -1, -1, -1>>,
     <<3, 0, 8, 1, 2, 9, 2, 4, 9, 2, 6, 4, -1, -1, -1, -1>>,
     <<0, 2, 4, 4, 2, 6, -1, -1, -1, -1, -1, -1, -1, -1, -1, -1>>,
     <<8, 3, 2, 8, 2, 4, 4, 2, 6, -1, -1, -1, -1, -1, -1, -1>>,
     <<10, 4, 9, 10, 6, 4, 11, 2, 3, -1, -1, -1, -1, -1, -1, -1>>,
     <<0, 8, 2, 2, 8, 11, 4, 9, 10, 4, 10, 6, -1, -1, -1, -1>>,
     <<3, 11, 2, 0, 1, 6, 0, 6, 4, 6, 1, 10, -1, -1, -1, -1>>,
     <<6, 4, 1, 6, 1, 10, 4, 8, 1, 2, 1, 11, 8, 11, 1, -1>>,
     <<9, 6, 4, 9, 3, 6, 9, 1, 3, 11, 6, 3, -1, -1, -1, -1>>,
     <<8, 11, 1, 8, 1, 0, 11, 6, 1, 9, 1, 4, 6, 4, 1, -1>>,
     <<3, 11, 6, 3, 6, 0, 0, 6, 4, -1, -1, -1, -1, -1, -1, -1>>,
     <<6, 4, 8, 11, 6, 8, -1, -1, -1, -1, -1, -1, -1, -1, -1, -1>>,
     <<7, 10, 6, 7, 8, 10, 8, 9, 10, -1, -1, -1, -1, -1, -1, -1>>,
     <<0, 7, 3, 0, 10, 7, 0, 9, 10, 6, 7, 10, -1, -1, -1, -1>>,
     <<10, 6, 7, 1, 10, 7, 1, 7, 8, 1, 8, 0, -1, -1, -1, -1>>,
     <<10, 6, 7, 10, 7, 1, 1, 7, 3, -1, -1, -1, -1, -1, -1, -1>>,
     <<1, 2, 6, 1, 6, 8, 1, 8, 9, 8, 6, 7, -1, -1, -1, -1>>,
     <<2, 6, 9, 2, 9, 1, 6, 7, 9, 0, 9, 3, 7, 3, 9, -1>>,
     <<7, 8, 0, 7, 0, 6, 6, 0, 2, -1, -1, -1, -1, -1, -1, -1>>,
     <<7, 3, 2, 6, 7, 2, -1, -1, -1, -1, -1, -1, -1, -1, -1, -1>>,
     <<2, 3, 11, 10, 6, 8, 10, 8, 9, 8, 6, 7, -1, -1, -1, -1>>,
     <<2, 0, 7, 2, 7, 11, 0, 9, 7, 6, 7, 10, 9, 10, 7, -1>>,
     <<1, 8, 0, 1, 7, 8, 1, 10, 7, 6, 7, 10, 2, 3, 11, -1>>,
     <<11, 2, 1, 11, 1, 7, 10, 6, 1, 6, 7, 1, -1, -1, -1, -1>>,
     <<8, 9, 6, 8, 6, 7, 9, 1, 6, 11, 6, 3, 1, 3, 6, -1>>,
     <<0, 9, 1, 11, 6, 7, -1, -1, -1, -1, -1, -1, -1, -1, -1, -1>>,
     <<7, 8, 0, 7, 0, 6, 3, 11, 0, 11, 6, 0, -1, -1, -1, -1>>,
     <<7, 11, 6, -1, -1, -1, -1, -1, -1, -1, -1, -1, -1, -1, -1, -1>>,
     <<7, 6, 11, -1, -1, -1, -1, -1, -1, -1, -1, -1, -1, -1, -1, -1>>,
     <<3, 0, 8, 11, 7, 6, -1, -1, -1, -1, -1, -1, -1, -1, -1, -1>>,
     <<0, 1, 9, 11, 7, 6, -1, -1, -1, -1, -1, -1, -1, -1, -1, -1>>,
     <<8, 1, 9, 8, 3, 1, 11, 7, 6, -1, -1, -1, -1, -1, -1, -1>>,
     <<10, 1, 2, 6, 11, 7, -1, -1, -1, -1, -1, -1, -1, -1, -1, -1>>,
     <<1, 2, 10, 3, 0, 8, 6, 11, 7, -1, -1, -1, -1, -1, -1, -1>>,
     <<2, 9, 0, 2, 10, 9, 6, 11, 7, -1, -1, -1, -1, -1, -1, -1>>,
     <<6, 11, 7, 2, 10, 3, 10, 8, 3, 10, 9, 8, -1, -1, -1, -1>>,
     <<7, 2, 3, 6, 2, 7, -1, -1, -1, -1, -1, -1, -1, -1, -1, -1>>,
     <<7, 0, 8, 7, 6, 0, 6, 2, 0, -1, -1, -1, -1, -1, -1, -1>>,
     <<2, 7, 6, 2, 3, 7, 0, 1, 9, -1, -1, -1, -1, -1, -1, -1>>,
     <<1, 6, 2, 1, 8, 6, 1, 9, 8, 8, 7, 6, -1, -1, -1, -1>>,
     <<10, 7, 6, 10, 1, 7, 1, 3, 7, -1, -1, -1, -1, -1, -1, -1>>,
     <<10, 7, 6, 1, 7, 10, 1, 8, 7, 1, 0, 8, -1, -1, -1, -1>>,
     <<0, 3, 7, 0, 7, 10, 0, 10, 9, 6, 10, 7, -1, -1, -1, -1>>,
     <<7, 6, 10, 7, 10, 8, 8, 10, 9, -1, -1, -1, -1, -1, -1, -1>>,
     <<6, 8, 4, 11, 8, 6, -1, -1, -1, -1, -1, -1, -1, -1, -1, -1>>,
     <<3, 6, 11, 3, 0, 6, 0, 4, 6, -1, -1, -1, -1, -1, -1, -1>>,
     <<8, 6, 11, 8, 4, 6, 9, 0, 1, -1, -1, -1, -1, -1, -1, -1>>,
     <<9, 4, 6, 9, 6, 3, 9, 3, 1, 11, 3, 6, -1, -1, -1, -1>>,
     <<6, 8, 4, 6, 11, 8, 2, 10, 1, -1, -1, -1, -1, -1, -1, -1>>,
     <<1, 2, 10, 3, 0, 11, 0, 6, 11, 0, 4, 6, -1, -1, -1, -1>>,
     <<4, 11, 8, 4, 6, 11, 0, 2, 9, 2, 10, 9, -1, -1, -1, -1>>,
     <<10, 9, 3, 10, 3, 2, 9, 4, 3, 11, 3, 6, 4, 6, 3, -1>>,
     <<8, 2, 3, 8, 4, 2, 4, 6, 2, -1, -1, -1, -1, -1, -1, -1>>,
     <<0, 4, 2, 4, 6, 2, -1, -1, -1, -1, -1, -1, -1, -1, -1, -1>>,
     <<1, 9, 0, 2, 3, 4, 2, 4, 6, 4, 3, 8, -1, -1, -1, -1>>,
     <<1, 9, 4, 1, 4, 2, 2, 4, 6, -1, -1, -1, -1, -1, -1, -1>>,
     <<8, 1, 3, 8, 6, 1, 8, 4, 6, 6, 10, 1, -1, -1, -1, -1>>,
     <<10, 1, 0, 10, 0, 6, 6, 0, 4, -1, -1, -1, -1, -1, -1, -1>>,
     <<4, 6, 3, 4, 3, 8, 6, 10, 3, 0, 3, 9, 10, 9, 3, -1>>,
     <<10, 9, 4, 6, 10, 4, -1, -1, -1, -1, -1, -1, -1, -1, -1, -1>>,
     <<4, 9, 5, 7, 6, 11, -1, -1, -1, -1, -1, -1, -1, -1, -1, -1>>,
     <<0, 8, 3, 4, 9, 5, 11, 7, 6, -1, -1, -1, -1, -1, -1, -1>>,
     <<5, 0, 1, 5, 4, 0, 7, 6, 11, -1, -1, -1, -1, -1, -1, -1>>,
     <<11, 7, 6, 8, 3, 4, 3, 5, 4, 3, 1, 5, -1, -1, -1, -1>>,
     <<9, 5, 4, 10, 1, 2, 7, 6, 11, -1, -1, -1, -1, -1, -1, -1>>,
     <<6, 11, 7, 1, 2, 10, 0, 8, 3, 4, 9, 5, -1, -1, -1, -1>>,
     <<7, 6, 11, 5, 4, 10, 4, 2, 10, 4, 0, 2, -1, -1, -1, -1>>,
     <<3, 4, 8, 3, 5, 4, 3, 2, 5, 10, 5, 2, 11, 7, 6, -1>>,
     <<7, 2, 3, 7, 6, 2, 5, 4, 9, -1, -1, -1, -1, -1, -1, -1>>,
     <<9, 5, 4, 0, 8, 6, 0, 6, 2, 6, 8, 7, -1, -1, -1, -1>>,
     <<3, 6, 2, 3, 7, 6, 1, 5, 0, 5, 4, 0, -1, -1, -1, -1>>,
     <<6, 2, 8, 6, 8, 7, 2, 1, 8, 4, 8, 5, 1, 5, 8, -1>>,
     <<9, 5, 4, 10, 1, 6, 1, 7, 6, 1, 3, 7, -1, -1, -1, -1>>,
     <<1, 6, 10, 1, 7, 6, 1, 0, 7, 8, 7, 0, 9, 5, 4, -1>>,
     <<4, 0, 10, 4, 10, 5, 0, 3, 10, 6, 10, 7, 3, 7, 10, -1>>,
     <<7, 6, 10, 7, 10, 8, 5, 4, 10, 4, 8, 10, -1, -1, -1, -1>>,
     <<6, 9, 5, 6, 11, 9, 11, 8, 9, -1, -1, -1, -1, -1, -1, -1>>,
     <<3, 6, 11, 0, 6, 3, 0, 5, 6, 0, 9, 5, -1, -1, -1, -1>>,
     <<0, 11, 8, 0, 5, 11, 0, 1, 5, 5, 6, 11, -1, -1, -1, -1>>,
     <<6, 11, 3, 6, 3, 5, 5, 3, 1, -1, -1, -1, -1, -1, -1, -1>>,
     <<1, 2, 10, 9, 5, 11, 9, 11, 8, 11, 5, 6, -1, -1, -1, -1>>,
     <<0, 11, 3, 0, 6, 11, 0, 9, 6, 5, 6, 9, 1, 2, 10, -1>>,
     <<11, 8, 5, 11, 5, 6, 8, 0, 5, 10, 5, 2, 0, 2, 5, -1>>,
     <<6, 11, 3, 6, 3, 5, 2, 10, 3, 10, 5, 3, -1, -1, -1, -1>>,
     <<5, 8, 9, 5, 2, 8, 5, 6, 2, 3, 8, 2, -1, -1, -1, -1>>,
     <<9, 5, 6, 9, 6, 0, 0, 6, 2, -1, -1, -1, -1, -1, -1, -1>>,
     <<1, 5, 8, 1, 8, 0, 5, 6, 8, 3, 8, 2, 6, 2, 8, -1>>,
     <<1, 5, 6, 2, 1, 6, -1, -1, -1, -1, -1, -1, -1, -1, -1, -1>>,
     <<1, 3, 6, 1, 6, 10, 3, 8, 6, 5, 6, 9, 8, 9, 6, -1>>,
     <<10, 1, 0, 10, 0, 6, 9, 5, 0, 5, 6, 0, -1, -1, -1, -1>>,
     <<0, 3, 8, 5, 6, 10, -1, -1, -1, -1, -1, -1, -1, -1, -1, -1>>,
     <<10, 5, 6, -1, -1, -1, -1, -1, -1, -1, -1, -1, -1, -1, -1, -1>>,
     <<11, 5, 10, 7, 5, 11, -1, -1, -1, -1, -1, -1, -1, -1, -1, -1>>,
     <<11, 5, 10, 11, 7, 5, 8, 3, 0, -1, -1, -1, -1, -1, -1, -1>>,
     <<5, 11, 7, 5, 10, 11, 1, 9, 0, -1, -1, -1, -1, -1, -1, -1>>,
     <<10, 7, 5, 10, 11, 7, 9, 8, 1, 8, 3, 1, -1, -1, -1, -1>>,
     <<11, 1, 2, 11, 7, 1, 7, 5, 1, -1, -1, -1, -1, -1, -1, -1>>,
     <<0, 8, 3, 1, 2, 7, 1, 7, 5, 7, 2, 11, -1, -1, -1, -1>>,
     <<9, 7, 5, 9, 2, 7, 9, 0, 2, 2, 11, 7, -1, -1, -1, -1>>,
     <<7, 5, 2, 7, 2, 11, 5, 9, 2, 3, 2, 8, 9, 8, 2, -1>>,
     <<2, 5, 10, 2, 3, 5, 3, 7, 5, -1, -1, -1, -1, -1, -1, -1>>,
     <<8, 2, 0, 8, 5, 2, 8, 7, 5, 10, 2, 5, -1, -1, -1, -1>>,
     <<9, 0, 1, 5, 10, 3, 5, 3, 7, 3, 10, 2, -1, -1, -1, -1>>,
     <<9, 8, 2, 9, 2, 1, 8, 7, 2, 10, 2, 5, 7, 5, 2, -1>>,
     <<1, 3, 5, 3, 7, 5, -1, -1, -1, -1, -1, -1, -1, -1, -1, -1>>,
     <<0, 8, 7, 0, 7, 1, 1, 7, 5, -1, -1, -1, -1, -1, -1, -1>>,
     <<9, 0, 3, 9, 3, 5, 5, 3, 7, -1, -1, -1, -1, -1, -1, -1>>,
     <<9, 8, 7, 5, 9, 7, -1, -1, -1, -1, -1, -1, -1, -1, -1, -1>>,
     <<5, 8, 4, 5, 10, 8, 10, 11, 8, -1, -1, -1, -1, -1, -1, -1>>,
     <<5, 0, 4, 5, 11, 0, 5, 10, 11, 11, 3, 0, -1, -1, -1, -1>>,
     <<0, 1, 9, 8, 4, 10, 8, 10, 11, 10, 4, 5, -1, -1, -1, -1>>,
     <<10, 11, 4, 10, 4, 5, 11, 3, 4, 9, 4, 1, 3, 1, 4, -1>>,
     <<2, 5, 1, 2, 8, 5, 2, 11, 8, 4, 5, 8, -1, -1, -1, -1>>,
     <<0, 4, 11, 0, 11, 3, 4, 5, 11, 2, 11, 1, 5, 1, 11, -1>>,
     <<0, 2, 5, 0, 5, 9, 2, 11, 5, 4, 5, 8, 11, 8, 5, -1>>,
     <<9, 4, 5, 2, 11, 3, -1, -1, -1, -1, -1, -1, -1, -1, -1, -1>>,
     <<2, 5, 10, 3, 5, 2, 3, 4, 5, 3, 8, 4, -1, -1, -1, -1>>,
     <<5, 10, 2, 5, 2, 4, 4, 2, 0, -1, -1, -1, -1, -1, -1, -1>>,
     <<3, 10, 2, 3, 5, 10, 3, 8, 5, 4, 5, 8, 0, 1, 9, -1>>,
     <<5, 10, 2, 5, 2, 4, 1, 9, 2, 9, 4, 2, -1, -1, -1, -1>>,
     <<8, 4, 5, 8, 5, 3, 3, 5, 1, -1, -1, -1, -1, -1, -1, -1>>,
     <<0, 4, 5, 1, 0, 5, -1, -1, -1, -1, -1, -1, -1, -1, -1, -1>>,
     <<8, 4, 5, 8, 5, 3, 9, 0, 5, 0, 3, 5, -1, -1, -1, -1>>,
     <<9, 4, 5, -1, -1, -1, -1, -1, -1, -1, -1, -1, -1, -1, -1, -1>>,
     <<4, 11, 7, 4, 9, 11, 9, 10, 11, -1, -1, -1, -1, -1, -1, -1>>,
     <<0, 8, 3, 4, 9, 7, 9, 11, 7, 9, 10, 11, -1, -1, -1, -1>>,
     <<1, 10, 11, 1, 11, 4, 1, 4, 0, 7, 4, 11, -1, -1, -1, -1>>,
     <<3, 1, 4, 3, 4, 8, 1, 10, 4, 7, 4, 11, 10, 11, 4, -1>>,
     <<4, 11, 7, 9, 11, 4, 9, 2, 11, 9, 1, 2, -1, -1, -1, -1>>,
     <<9, 7, 4, 9, 11, 7, 9, 1, 11, 2, 11, 1, 0, 8, 3, -1>>,
     <<11, 7, 4, 11, 4, 2, 2, 4, 0, -1, -1, -1, -1, -1, -1, -1>>,
     <<11, 7, 4, 11, 4, 2, 8, 3, 4, 3, 2, 4, -1, -1, -1, -1>>,
     <<2, 9, 10, 2, 7, 9, 2, 3, 7, 7, 4, 9, -1, -1, -1, -1>>,
     <<9, 10, 7, 9, 7, 4, 10, 2, 7, 8, 7, 0, 2, 0, 7, -1>>,
     <<3, 7, 10, 3, 10, 2, 7, 4, 10, 1, 10, 0, 4, 0, 10, -1>>,
     <<1, 10, 2, 8, 7, 4, -1, -1, -1, -1, -1, -1, -1, -1, -1, -1>>,
     <<4, 9, 1, 4, 1, 7, 7, 1, 3, -1, -1, -1, -1, -1, -1, -1>>,
     <<4, 9, 1, 4, 1, 7, 0, 8, 1, 8, 7, 1, -1, -1, -1, -1>>,
     <<4, 0, 3, 7, 4, 3, -1, -1, -1, -1, -1, -1, -1, -1, -1, -1>>,
     <<4, 8, 7, -1, -1, -1, -1, -1, -1, -1, -1, -1, -1, -1, -1, -1>>,
     <<9, 10, 8, 10, 11, 8, -1, -1, -1, -1, -1, -1, -1, -1, -1, -1>>,
     <<3, 0, 9, 3, 9, 11, 11, 9, 10, -1, -1, -1, -1, -1, -1, -1>>,
     <<0, 1, 10, 0, 10, 8, 8, 10, 11, -1, -1, -1, -1, -1, -1, -1>>,
     <<3, 1, 10, 11, 3, 10, -1, -1, -1, -1, -1, -1, -1, -1, -1, -1>>,
     <<1, 2, 11, 1, 11, 9, 9, 11, 8, -1, -1, -1, -1, -1, -1, -1>>,
     <<3, 0, 9, 3, 9, 11, 1, 2, 9, 2, 11, 9, -1, -1, -1, -1>>,
     <<0, 2, 11, 8, 0, 11, -1, -1, -1, -1, -1, -1, -1, -1, -1, -1>>,
     <<3, 2, 11, -1, -1, -1, -1, -1, -1, -1, -1, -1, -1, -1, -1, -1>>,
     <<2, 3, 8, 2, 8, 10, 10, 8, 9, -1, -1, -1, -1, -1, -1, -1>>,
     <<9, 10, 2, 0, 9, 2, -1, -1, -1, -1, -1, -1, -1, -1, -1, -1>>,
     <<2, 3, 8, 2, 8, 10, 0, 1, 8, 1, 10, 8, -1, -1, -1, -1>>,
     <<1, 10, 2, -1, -1, -1, -1, -1, -1, -1, -1, -1, -1, -1, -1, -1>>,
     <<1, 3, 8, 9, 1, 8, -1, -1, -1, -1, -1, -1, -1, -1, -1, -1>>,
     <<0, 9, 1, -1, -1, -1, -1, -1, -1, -1, -1, -1, -1, -1, -1, -1>>,
     <<0, 3, 8, -1, -1, -1, -1, -1, -1, -1, -1, -1, -1, -1, -1, -1>>,
     <<-1, -1, -1, -1, -1, -1, -1, -1, -1, -1, -1, -1, -1, -1, -1, -1>> >>

-----------------------------------------------------------------------------
(* utils.rs *)

Ok(v) == [ok |-> TRUE, val |-> v]
Err(e) == [ok |-> FALSE, err |-> e]

state_function_strict(v, threshold) == IF v < threshold THEN 1 ELSE 0

\* 1 if v <= threshold, 0 otherwise.
state_function(v, threshold) == IF v <= threshold THEN 1 ELSE 0

RECURSIVE state_sum_seven(_, _, _, _)
state_sum_seven(eval_corners, threshold, k, i) ==
  IF k > Len(eval_corners) - 1 THEN 0
  ELSE state_function(eval_corners[k], threshold) * i
         + state_sum_seven(eval_corners, threshold, k + 1, i * 2)

RECURSIVE state_sum(_, _, _, _)
\* The loop of get_state: final_state += s * i; i *= 2, over the corners from k on.
state_sum(eval_corners, threshold, k, i) ==
  IF k > Len(eval_corners) THEN 0
  ELSE state_function(eval_corners[k], threshold) * i
         + state_sum(eval_corners, threshold, k + 1, i * 2)

get_state_at_least(eval_corners, threshold) ==
  IF Len(eval_corners) < 8 THEN Err("InvalidCorners")
  ELSE Ok(state_sum(eval_corners, threshold, 1, 1))

get_state(eval_corners, threshold) ==
  IF Len(eval_corners) # 8 THEN Err("InvalidCorners")
  ELSE Ok(state_sum(eval_corners, threshold, 1, 1))

add_points(p1, p2) == [k \in 1..3 |-> RAdd(p1[k], p2[k])]

\* The world-space positions of the 8 corners of voxel (x, y, z).
get_corner_positions_index_base(min_point, x, y, z, scale) ==
  LET base == <<R(x), R(y), R(z)>>
      offs == << <<0, 0, 0>>, <<1, 0, 0>>, <<1, 1, 0>>, <<0, 1, 0>>,
                 <<0, 0, 1>>, <<1, 0, 1>>, <<1, 1, 1>>, <<0, 1, 1>> >>
  IN  [i \in 1..8 |->
         add_points([k \in 1..3 |-> RAdd(base[k], RMul(R(offs[i][k]), scale))], min_point)]

get_corner_positions(min_point, x, y, z, scale) ==
  LET xf == RMul(scale, R(x))
      yf == RMul(scale, R(y))
      zf == RMul(scale, R(z))
      p0 == <<xf, yf, zf>>
      p1 == <<RAdd(xf, scale), yf, zf>>
      p2 == <<RAdd(xf, scale), RAdd(yf, scale), zf>>
      p3 == <<xf, RAdd(yf, scale), zf>>
      p4 == <<xf, yf, RAdd(zf, scale)>>
      p5 == <<RAdd(xf, scale), yf, RAdd(zf, scale)>>
      p6 == <<RAdd(xf, scale), RAdd(yf, scale), RAdd(zf, scale)>>
      p7 == <<xf, RAdd(yf, scale), RAdd(zf, scale)>>
      corner_points == <<p0, p1, p2, p3, p4, p5, p6, p7>>
  IN  [i \in 1..8 |-> add_points(corner_points[i], min_point)]

RECURSIVE BinaryString(_)
\* The binary digits of an edge mask, most significant first ("{:b}").
BinaryString(n) ==
  IF n < 2 THEN <<n>> ELSE Append(BinaryString(n \div 2), n % 2)

RECURSIVE edges_walk(_, _)
\* The loop of edges_from_lookup from character k on; i = len - k is the edge
\* the k-th character stands for.
edges_walk(edges, k) ==
  IF k > Len(edges) THEN <<>>
  ELSE (IF edges[k] = 1 THEN <<Len(edges) - k>> ELSE <<>>)
         \o edges_walk(edges, k + 1)

edges_from_lookup(edges) == edges_walk(edges, 1)

get_edge_endpoints(edges, point_indices) ==
  LET edges_to_use == edges_from_lookup(edges)
  IN  << [k \in 1..Len(edges_to_use) |-> point_indices[edges_to_use[k] + 1]],
         edges_to_use >>

get_edge_midpoints_halfway(endpoint_indices, edges_to_use, corner_positions, corner_values, threshold) ==
  LET n == Len(endpoint_indices)
      pe(i) ==
        interpolate_points(corner_positions[endpoint_indices[i][1] + 1],
                           corner_positions[endpoint_indices[i][2] + 1], <<1, 2>>)
      last(e) ==
        CHOOSE i \in 1..n :
          edges_to_use[i] = e /\ \A j \in (i + 1)..n : edges_to_use[j] # e
  IN  [e \in {edges_to_use[i] : i \in 1..n} |-> pe(last(e))]

\* The HashMap edge -> interpolated crossing point; a later insert of the same
\* key replaces the earlier one.
get_edge_midpoints(endpoint_indices, edges_to_use, corner_positions, corner_values, threshold) ==
  LET n == Len(endpoint_indices)
      pe(i) ==
        LET pair == endpoint_indices[i]
            vi == R(corner_values[pair[1] + 1])
            vf == R(corner_values[pair[2] + 1])
            pi == corner_positions[pair[1] + 1]
            pf == corner_positions[pair[2] + 1]
            t == find_t(vi, vf, R(threshold))
        IN  interpolate_points(pi, pf, t)
      last(e) ==
        CHOOSE i \in 1..n :
          edges_to_use[i] = e /\ \A j \in (i + 1)..n : edges_to_use[j] # e
  IN  [e \in {edges_to_use[i] : i \in 1..n} |-> pe(last(e))]

IsVertexEntry(v) == v # -1

\* One vertex per entry of TRI_TABLE[state] that is not the sentinel -1; the
\* vertex is built from components [2], [1], [0] of the stored edge point.
triangle_verts_from_state(edge_points, state) ==
  LET kept == SelectSeq(TRI_TABLE[state + 1], IsVertexEntry)
  IN  [k \in 1..Len(kept) |->
         <<edge_points[kept[k]][3], edge_points[kept[k]][2], edge_points[kept[k]][1]>>]

-----------------------------------------------------------------------------
(* mesh.rs *)

new_empty == [vertices |-> <<>>, tris |-> <<>>, normals |-> <<>>]

set_vertices(m, vertices) == [m EXCEPT !.vertices = vertices]

Max2(a, b) == IF a >= b THEN a ELSE b

\* Result<()> together with the mesh after the call.
triangle_from_verts(m, x, y, z) ==
  IF Len(m.vertices) <= Max2(x, Max2(y, z))
    THEN [res |-> Err("InvalidIndex"), mesh |-> m]
    ELSE [res |-> Ok(<<>>), mesh |-> [m EXCEPT !.tris = Append(@, <<x, y, z>>)]]

RECURSIVE create_triangles_from(_, _)
\* The loop of create_triangles from vertex v on; .expect() panics on Err.
create_triangles_from(m, v) ==
  IF v >= Len(m.vertices) THEN [panic |-> FALSE, mesh |-> m]
  ELSE LET r == triangle_from_verts(m, v, v + 1, v + 2)
       IN  IF r.res.ok THEN create_triangles_from(r.mesh, v + 3)
           ELSE [panic |-> TRUE, mesh |-> r.mesh]

create_triangles_from_one(m) == create_triangles_from(m, 1)

create_triangles(m) == create_triangles_from(m, 0)

VSub(a, b) == [k \in 1..3 |-> RSub(a[k], b[k])]

Cross(a, b) ==
  << RSub(RMul(a[2], b[3]), RMul(a[3], b[2])),
     RSub(RMul(a[3], b[1]), RMul(a[1], b[3])),
     RSub(RMul(a[1], b[2]), RMul(a[2], b[1])) >>

Dot(a, b) == RAdd(RAdd(RMul(a[1], b[1]), RMul(a[2], b[2])), RMul(a[3], b[3]))

ZeroVec == <<R(0), R(0), R(0)>>

\* A vector num / sqrt(sq): the square root is kept symbolic.
OverRoot(num, sq) == [num |-> num, sq |-> sq]

tri_normal_reversed(m, tri) ==
  LET va == m.vertices[m.tris[tri + 1][1] + 1]
      vb == m.vertices[m.tris[tri + 1][2] + 1]
      vc == m.vertices[m.tris[tri + 1][3] + 1]
      cross == Cross(VSub(vc, vb), VSub(vb, va))
      nrm2 == Dot(cross, cross)
  IN  IF nrm2 = R(0) THEN OverRoot(ZeroVec, R(1)) ELSE OverRoot(cross, nrm2)

\* cross / |cross|, or the zero vector when |cross| = 0.
tri_normal(m, tri) ==
  LET va == m.vertices[m.tris[tri + 1][1] + 1]
      vb == m.vertices[m.tris[tri + 1][2] + 1]
      vc == m.vertices[m.tris[tri + 1][3] + 1]
      v_a_b == VSub(vb, va)
      v_b_c == VSub(vc, vb)
      cross == Cross(v_a_b, v_b_c)
      nrm2 == Dot(cross, cross)
  IN  IF nrm2 = R(0) THEN OverRoot(ZeroVec, R(1)) ELSE OverRoot(cross, nrm2)

create_normals_append(m) ==
  [m EXCEPT !.normals =
     @ \o [k \in 1..(3 * Len(m.tris)) |-> tri_normal(m, (k - 1) \div 3)]]

\* self.normals.clear(), then three pushes of the face normal per triangle.
create_normals(m) ==
  [m EXCEPT !.normals =
     [k \in 1..(3 * Len(m.tris)) |-> tri_normal(m, (k - 1) \div 3)]]

\* GeneratedMesh::build: sequential indices and flat normals for a
\* triangle-grouped vertex sequence.
GeneratedMesh_build(vertices) ==
  LET m == create_normals(create_triangles(set_vertices(new_empty, vertices)).mesh)
  IN  [tag |-> "mesh",
       vertices |-> m.vertices,
       indices |-> [k \in 1..(3 * Len(m.tris)) |-> m.tris[((k - 1) \div 3) + 1][((k - 1) % 3) + 1]],
       normals |-> m.normals]

-----------------------------------------------------------------------------
(* plugin.rs: run_marching_cubes *)

Origin == <<R(0), R(0), R(0)>>

voxel_corner_indices(x, y, z) ==
  << <<x, y, z>>, <<x + 1, y, z>>, <<x + 1, y + 1, z>>, <<x, y + 1, z>>,
     <<x, y, z + 1>>, <<x + 1, y, z + 1>>, <<x + 1, y + 1, z + 1>>,
     <<x, y + 1, z + 1>> >>

\* The body of the voxel loop: the vertices voxel (x, y, z) adds to `local`.
voxel_verts(g, x, y, z) ==
  LET corner_positions == get_corner_positions(Origin, x, y, z, g.scale)
      corner_indices == voxel_corner_indices(x, y, z)
      eval_corners ==
        [i \in 1..8 |->
           g.values[corner_indices[i][3] + 1][corner_indices[i][2] + 1][corner_indices[i][1] + 1]]
      state == get_state(eval_corners, g.threshold).val
      edges_mask == EDGE_TABLE[state + 1]
      ends == get_edge_endpoints(BinaryString(edges_mask), CORNER_POINT_INDICES)
      edge_points ==
        get_edge_midpoints(ends[1], ends[2], corner_positions, eval_corners, g.threshold)
  IN  triangle_verts_from_state(edge_points, state)

RECURSIVE slab_loop(_, _, _, _)
\* for y in 0..size_y { for z in 0..size_z { ... } } of slice x, from (y, z) on.
slab_loop(g, x, y, z) ==
  IF y >= g.size_y THEN <<>>
  ELSE IF z >= g.size_z THEN slab_loop(g, x, y + 1, 0)
  ELSE voxel_verts(g, x, y, z) \o slab_loop(g, x, y, z + 1)

slab_verts(g, x) == slab_loop(g, x, 0, 0)

\* The slot of the collected Vec that slice x's output lands in.
collect_slot_by_arrival(x) == Len(finished) + 1

collect_slot(x) == x + 1

RECURSIVE merge_from(_, _)
\* for mut v in per_x { vertices.append(&mut v) }, from slot k on.
merge_from(px, k) ==
  IF k > Len(px) THEN <<>> ELSE px[k] \o merge_from(px, k + 1)

-----------------------------------------------------------------------------
(* Bounds and input sets *)

MaxCorners == 9

\* Largest grid given to run_marching_cubes.
MaxX == 2
MaxY == 1
MaxZ == 1

\* Largest Chunk size per axis, and the number of builder or write calls made
\* on the Chunk.
ChMaxSize == 1
MaxOps == 2

\* Number of entities spawned into the world, and the number spawned where
\* progress is checked under fairness.
MaxEnts == 3
MaxLiveEnts == 2
MaxDrops == 1

\* Number of triangles in a vertex buffer given to set_vertices, and number
\* of MarchMesh methods called after it.
MaxTris == 2
MaxMeshOps == 3

\* let per_voxel_max = 15_usize
per_voxel_max == 15

CornerVals == {0, 1, 2}
Thresholds == {0, 1}

Scales == {R(1), R(2)}
McThresholds == {0}

-----------------------------------------------------------------------------
(* Values of the variable groups a specification does not use *)

NotCalled == [ok |-> FALSE, err |-> "NotCalled"]

GsIdle ==
  /\ gs_corners = <<>>
  /\ gs_threshold = 0
  /\ gs_result = NotCalled

ChIdle ==
  /\ chunk = [tag |-> "none"]
  /\ heap = <<>>
  /\ holders = <<>>
  /\ build = "debug"
  /\ ops = 0
  /\ last_op = [op |-> "none"]

PlIdle ==
  /\ ents = <<>>
  /\ config = 0
  /\ phase = "Spawn"
  /\ added_ran = FALSE
  /\ tasks = <<>>
  /\ last_sys = [sys |-> "none"]

MmIdle ==
  /\ mm = new_empty
  /\ mm_hist = <<>>
  /\ mm_last = [op |-> "none"]

McIdle ==
  /\ grid = [tag |-> "none"]
  /\ slab = <<>>
  /\ per_x = <<>>
  /\ finished = <<>>
  /\ mc_pc = "idle"
  /\ mesh = [tag |-> "none"]
  /\ prev_mesh = [tag |-> "none"]

-----------------------------------------------------------------------------
(* Direct calls of get_state, the unit-test entry point of the classifier *)

GsInit ==
  /\ gs_corners \in UNION {[1..n -> CornerVals] : n \in 0..MaxCorners}
  /\ gs_threshold \in Thresholds
  /\ gs_result = NotCalled
  /\ ChIdle /\ PlIdle /\ McIdle /\ MmIdle

GetStateCall ==
  /\ gs_result = NotCalled
  /\ gs_result' = get_state(gs_corners, gs_threshold)
  /\ UNCHANGED <<gs_corners, gs_threshold, chVars, plVars, mcVars, mmVars>>

GsNext == GetStateCall

SpecState == GsInit /\ [][GsNext]_vars

Bit(n, i) == (n \div (2 ^ i)) % 2

\* C9: get_state on a corner sequence whose length is not 8 (0 and more than 8
\* included) returns Err(InvalidCorners); on exactly 8 values it returns Ok.
C9_InvalidCorners ==
  gs_result # NotCalled =>
    /\ Len(gs_corners) # 8 => gs_result = Err("InvalidCorners")
    /\ Len(gs_corners) = 8 => gs_result.ok

C9_Witness ==
  /\ Len(gs_corners) > 8
  /\ gs_result = Err("InvalidCorners")

-----------------------------------------------------------------------------
(* Scalar fields a caller writes into a grid with for_each_corner *)

\* The index of corner offset (dx, dy, dz) in the corner ordering.
CornerIndex(dx, dy, dz) ==
  IF dz = 0
    THEN (IF dy = 0 THEN (IF dx = 0 THEN 0 ELSE 1) ELSE (IF dx = 0 THEN 3 ELSE 2))
    ELSE (IF dy = 0 THEN (IF dx = 0 THEN 4 ELSE 5) ELSE (IF dx = 0 THEN 7 ELSE 6))

Corners(sx, sy, sz) == (0..sx) \X (0..sy) \X (0..sz)

FieldsFor(sx, sy, sz) ==
  {[kind |-> "uniform", a |-> v] : v \in {-1, 0, 1}}
  \cup {[kind |-> "ball", c |-> c, a |-> ab[1], b |-> ab[2]] :
          c \in Corners(sx, sy, sz), ab \in {<<-1, 3>>, <<0, 1>>}}
  \cup {[kind |-> "hole", c |-> c, a |-> -1, b |-> 3] : c \in Corners(sx, sy, sz)}
  \cup {[kind |-> "plane", n |-> n, d |-> -1] :
          n \in {<<2, 0, 0>>, <<0, 2, 0>>, <<0, 0, 2>>, <<1, 1, 1>>, <<-2, 1, 0>>}}
  \cup (IF sx = 1 /\ sy = 1 /\ sz = 1
          THEN {[kind |-> "mask", m |-> m] : m \in 0..255} ELSE {})

\* The value the closure stores for corner (x, y, z).
FieldValue(f, x, y, z) ==
  CASE f.kind = "uniform" -> f.a
    [] f.kind = "ball" -> IF <<x, y, z>> = f.c THEN f.a ELSE f.b
    [] f.kind = "hole" -> IF <<x, y, z>> = f.c THEN f.b ELSE f.a
    [] f.kind = "plane" -> f.n[1] * x + f.n[2] * y + f.n[3] * z + f.d
    [] f.kind = "mask" ->
         IF Bit(f.m, CornerIndex(x % 2, y % 2, z % 2)) = 1 THEN -1 ELSE 1

\* Chunk::new(sx, sy, sz).with_scale(scale).with_threshold(threshold), filled
\* with for_each_corner(|x, y, z, v| *v = f(x, y, z)).
MakeGrid(sx, sy, sz, scale, threshold, f) ==
  [tag |-> "grid", size_x |-> sx, size_y |-> sy, size_z |-> sz,
   scale |-> scale, threshold |-> threshold,
   values |-> [z \in 1..(sz + 1) |-> [y \in 1..(sy + 1) |->
                 [x \in 1..(sx + 1) |-> FieldValue(f, x - 1, y - 1, z - 1)]]]]

-----------------------------------------------------------------------------
(* run_marching_cubes: the X slices run as independent rayon jobs *)

NoMesh == [tag |-> "none"]

McInit ==
  /\ \E sx \in 0..MaxX, sy \in 0..MaxY, sz \in 0..MaxZ :
       \E scale \in Scales, threshold \in McThresholds, f \in FieldsFor(sx, sy, sz) :
         grid = MakeGrid(sx, sy, sz, scale, threshold, f)
  /\ slab = [x \in 1..grid.size_x |-> "todo"]
  /\ per_x = [x \in 1..grid.size_x |-> <<>>]
  /\ finished = <<>>
  /\ mc_pc = "slabs"
  /\ mesh = NoMesh
  /\ prev_mesh = NoMesh
  /\ GsIdle /\ ChIdle /\ PlIdle /\ MmIdle

\* A worker picks slice x.
SlabStart(x) ==
  /\ mc_pc = "slabs"
  /\ slab[x + 1] = "todo"
  /\ slab' = [slab EXCEPT ![x + 1] = "running"]
  /\ UNCHANGED <<grid, per_x, finished, mc_pc, mesh, prev_mesh>>
  /\ UNCHANGED <<gsVars, chVars, plVars, mmVars>>

\* The closure of slice x returns its `local`; collect() stores it.
SlabFinish(x) ==
  /\ mc_pc = "slabs"
  /\ slab[x + 1] = "running"
  /\ slab' = [slab EXCEPT ![x + 1] = "done"]
  /\ per_x' = [per_x EXCEPT ![collect_slot(x)] = slab_verts(grid, x)]
  /\ finished' = Append(finished, x)
  /\ UNCHANGED <<grid, mc_pc, mesh, prev_mesh>>
  /\ UNCHANGED <<gsVars, chVars, plVars, mmVars>>

\* collect() returned: merge the slices and build the mesh.
Merge ==
  /\ mc_pc = "slabs"
  /\ \A x \in 1..grid.size_x : slab[x] = "done"
  /\ mesh' = GeneratedMesh_build(merge_from(per_x, 1))
  /\ mc_pc' = "merged"
  /\ UNCHANGED <<grid, slab, per_x, finished, prev_mesh>>
  /\ UNCHANGED <<gsVars, chVars, plVars, mmVars>>

\* The caller keeps the mesh and extracts the unchanged grid again.
Rerun ==
  /\ mc_pc = "merged"
  /\ prev_mesh' = mesh
  /\ mesh' = NoMesh
  /\ slab' = [x \in 1..grid.size_x |-> "todo"]
  /\ per_x' = [x \in 1..grid.size_x |-> <<>>]
  /\ finished' = <<>>
  /\ mc_pc' = "slabs"
  /\ UNCHANGED grid
  /\ UNCHANGED <<gsVars, chVars, plVars, mmVars>>

McNext ==
  \/ \E x \in 0..(grid.size_x - 1) : SlabStart(x)
  \/ \E x \in 0..(grid.size_x - 1) : SlabFinish(x)
  \/ Merge
  \/ Rerun

SpecMC == McInit /\ [][McNext]_vars

-----------------------------------------------------------------------------
(* Claims about run_marching_cubes *)

RECURSIVE SeqPassFrom(_, _, _, _)
\* A single-threaded pass: x ascending, then y ascending, then z ascending.
SeqPassFrom(g, x, y, z) ==
  IF x >= g.size_x THEN <<>>
  ELSE IF y >= g.size_y THEN SeqPassFrom(g, x + 1, 0, 0)
  ELSE IF z >= g.size_z THEN SeqPassFrom(g, x, y + 1, 0)
  ELSE voxel_verts(g, x, y, z) \o SeqPassFrom(g, x, y, z + 1)

RECURSIVE LenUpTo(_, _)
\* The number of vertices in the first k slots of px.
LenUpTo(px, k) == IF k = 0 THEN 0 ELSE Len(px[k]) + LenUpTo(px, k - 1)

\* C1: whatever the order in which the slices ran and completed, the merged
\* vertex buffer is the slices' outputs laid out in ascending slice index and
\* equals the buffer of a single-threaded pass over x, then y, then z.
C1_MergeIsSequential ==
  mc_pc = "merged" =>
    /\ Len(mesh.vertices) = LenUpTo(per_x, grid.size_x)
    /\ \A x \in 1..grid.size_x : \A k \in 1..Len(per_x[x]) :
         mesh.vertices[LenUpTo(per_x, x - 1) + k] = per_x[x][k]
    /\ \A x \in 1..grid.size_x : per_x[x] = SeqPassFrom([grid EXCEPT !.size_x = x], x - 1, 0, 0)
    /\ mesh.vertices = SeqPassFrom(grid, 0, 0, 0)

C1_Witness ==
  /\ mc_pc = "merged"
  /\ grid.size_x >= 2
  /\ finished[1] > finished[2]
  /\ per_x[1] # <<>>
  /\ per_x[2] # <<>>
  /\ per_x[1] # per_x[2]

\* C2: a second extraction of the unchanged grid returns the same vertex,
\* index and normal sequences as the first, whatever the interleavings.
C2_Deterministic ==
  (mc_pc = "merged" /\ prev_mesh # NoMesh) =>
    /\ mesh.vertices = prev_mesh.vertices
    /\ mesh.indices = prev_mesh.indices
    /\ mesh.normals = prev_mesh.normals

C2_Witness ==
  /\ mc_pc = "merged"
  /\ prev_mesh # NoMesh
  /\ grid.size_x >= 2
  /\ finished[1] > finished[2]
  /\ per_x[1] # <<>>
  /\ per_x[1] # per_x[2]
  /\ mesh = prev_mesh

CornerValuesOf(g, x, y, z) ==
  {g.values[z + dz + 1][y + dy + 1][x + dx + 1] : dx \in {0, 1}, dy \in {0, 1}, dz \in {0, 1}}

\* All 8 corners above the threshold (state 0) or all at or below it (state 255).
VoxelUniform(g, x, y, z) ==
  \/ \A v \in CornerValuesOf(g, x, y, z) : v > g.threshold
  \/ \A v \in CornerValuesOf(g, x, y, z) : v <= g.threshold

MixedVoxels(g, x) ==
  {yz \in (0..(g.size_y - 1)) \X (0..(g.size_z - 1)) : ~VoxelUniform(g, x, yz[1], yz[2])}

SeqToSet(s) == {s[k] : k \in 1..Len(s)}

\* C7: voxels in state 0 or 255 emit nothing: a completed slice holds vertices
\* only for its other voxels, and a grid all of whose voxels are in state 0 or
\* 255 yields a mesh with no vertices, indices or normals.
C7_UniformEmitsNothing ==
  /\ \A x \in SeqToSet(finished) :
       Len(per_x[x + 1]) <= per_voxel_max * Cardinality(MixedVoxels(grid, x))
  /\ (mc_pc = "merged" /\ \A x \in 0..(grid.size_x - 1) : MixedVoxels(grid, x) = {}) =>
       /\ mesh.vertices = <<>>
       /\ mesh.indices = <<>>
       /\ mesh.normals = <<>>

C7_Witness ==
  /\ mc_pc = "merged"
  /\ grid.size_x >= 2 /\ grid.size_y >= 1 /\ grid.size_z >= 1
  /\ \A x \in 0..(grid.size_x - 1) : \A v \in CornerValuesOf(grid, x, 0, 0) : v <= grid.threshold
  /\ mesh.vertices = <<>>

\* Corner offsets in the fixed corner ordering.
CornerOffset ==
  << <<0, 0, 0>>, <<1, 0, 0>>, <<1, 1, 0>>, <<0, 1, 0>>,
     <<0, 0, 1>>, <<1, 0, 1>>, <<1, 1, 1>>, <<0, 1, 1>> >>

\* World position of corner i of the voxel at the grid origin.
CornerWorld(g, i) == [k \in 1..3 |-> RMul(g.scale, R(CornerOffset[i + 1][k]))]

InsideCorners(g) ==
  {i \in 0..7 :
     g.values[CornerOffset[i + 1][3] + 1][CornerOffset[i + 1][2] + 1][CornerOffset[i + 1][1] + 1]
       <= g.threshold}

EdgeNeighbours(c) ==
  {n \in 0..7 : Cardinality({k \in 1..3 : CornerOffset[n + 1][k] # CornerOffset[c + 1][k]}) = 1}

\* v lies on the axis-aligned segment from p to q.
OnSegment(v, p, q) ==
  \A k \in 1..3 :
    /\ IsFinite(v[k])
    /\ \/ RLe(p[k], v[k]) /\ RLe(v[k], q[k])
       \/ RLe(q[k], v[k]) /\ RLe(v[k], p[k])

\* C8: a single voxel with exactly one corner c at or below the threshold
\* yields exactly one triangle, one vertex on each of the three voxel edges
\* that meet at c.
C8_SingleCornerTriangle ==
  (mc_pc = "merged" /\ grid.size_x = 1 /\ grid.size_y = 1 /\ grid.size_z = 1
     /\ Cardinality(InsideCorners(grid)) = 1) =>
    LET c == CHOOSE i \in InsideCorners(grid) : TRUE
    IN  /\ Len(mesh.vertices) = 3
        /\ \E f \in [1..3 -> EdgeNeighbours(c)] :
             /\ \A j, k \in 1..3 : j # k => f[j] # f[k]
             /\ \A k \in 1..3 :
                  OnSegment(mesh.vertices[k], CornerWorld(grid, c), CornerWorld(grid, f[k]))

\* The part of C8 that the code satisfies for every corner: one triangle.
C8_OneTriangle ==
  (mc_pc = "merged" /\ grid.size_x = 1 /\ grid.size_y = 1 /\ grid.size_z = 1
     /\ Cardinality(InsideCorners(grid)) = 1) =>
    Len(mesh.vertices) = 3

-----------------------------------------------------------------------------
(* chunk.rs: one Chunk, its Arc<Vec<Vec<Vec<Value>>>> and the other handles *)

\* The other owner of an Arc: the in-flight task of spawn_mesh_tasks, or the
\* caller who saved a clone.
Holders == {"other"}

AllocIds == 1..(1 + Cardinality(Holders))

Free == [free |-> TRUE]
Alloc(data) == [free |-> FALSE, data |-> data]

\* Chunk sizes: cubes, and rods along each axis.
ChCubes == {<<s, s, s>> : s \in 0..ChMaxSize}
ChRods == UNION {{<<s, 0, 0>>, <<0, s, 0>>, <<0, 0, s>>} : s \in 0..ChMaxSize}
ChShapes == ChCubes \cup ChRods
ChScales == {R(2)}
ChThresholds == {1}
SetValue == 5

\* Closures given to fill, for_each_corner and for_each_corner_offset.
ChClosures == {[kind |-> "lin"], [kind |-> "incr"]}
MinPoints == {<<R(1), R(2), R(3)>>}

Floor(r) == r[1] \div r[2]

\* The value closure f leaves in a slot that held old, called with (px, py, pz).
ClosureValue(f, px, py, pz, old) ==
  CASE f.kind = "lin" -> Floor(RAdd(px, RAdd(RMul(R(2), py), RMul(R(4), pz))))
    [] f.kind = "incr" -> old + 1

\* Arc::strong_count of allocation id.
StrongCount(ch, hs, id) ==
  (IF ch.tag = "chunk" /\ ch.values = id THEN 1 ELSE 0)
    + Cardinality({h \in Holders : hs[h] = id})

\* Dropping the last Arc frees the allocation.
Collect(ch, hp, hs) ==
  [id \in AllocIds |-> IF StrongCount(ch, hs, id) = 0 THEN Free ELSE hp[id]]

FreshId(hp) == CHOOSE id \in AllocIds : hp[id] = Free /\ \A j \in AllocIds : j < id => hp[j] # Free

\* vec![vec![vec![0.; size_x + 1]; size_y + 1]; size_z + 1]
ZeroValues(sx, sy, sz) ==
  [z \in 1..(sz + 1) |-> [y \in 1..(sy + 1) |-> [x \in 1..(sx + 1) |-> 0]]]

Chunk_default(id) ==
  [tag |-> "chunk", size_x |-> 0, size_y |-> 0, size_z |-> 0,
   scale |-> R(1), threshold |-> 0, values |-> id]

Chunk_new(sx, sy, sz, id) ==
  [Chunk_default(id) EXCEPT !.size_x = sx, !.size_y = sy, !.size_z = sz]

Panicked == [tag |-> "panicked"]

values_mut_in_place(ch, hp, hs) == [id |-> ch.values, heap |-> hp]

\* Arc::make_mut: the storage the owner writes to, cloned first when shared.
values_mut(ch, hp, hs) ==
  IF StrongCount(ch, hs, ch.values) = 1
    THEN [id |-> ch.values, heap |-> hp]
    ELSE LET id == FreshId(hp)
         IN  [id |-> id, heap |-> [hp EXCEPT ![id] = hp[ch.values]]]

InRange(data, x, y, z) ==
  /\ z + 1 <= Len(data)
  /\ y + 1 <= Len(data[z + 1])
  /\ x + 1 <= Len(data[z + 1][y + 1])

\* Chunk::get
get(ch, hp, x, y, z) == hp[ch.values].data[z + 1][y + 1][x + 1]

\* The corner loops index values[z][y][x] for every x <= size_x, y <= size_y,
\* z <= size_z and panic on the first slot the storage does not have.
LoopPanics(ch, data) ==
  \E x \in 0..ch.size_x, y \in 0..ch.size_y, z \in 0..ch.size_z : ~InRange(data, x, y, z)

\* The record last_op keeps of a corner loop.
LoopCall(name, f, min_point) ==
  [op |-> name, f |-> f, min_point |-> min_point, calls |-> <<>>,
   cloned |-> FALSE, panicked |-> FALSE]

LoopPoint_unscaled(call, scale, x, y, z) == <<R(x), R(y), R(z)>>

\* The coordinates a corner loop hands to its closure at corner (x, y, z).
LoopPoint(call, scale, x, y, z) ==
  CASE call.op = "fill" -> <<RMul(R(x), scale), RMul(R(y), scale), RMul(R(z), scale)>>
    [] call.op = "for_each_corner" -> <<R(x), R(y), R(z)>>
    [] call.op = "for_each_corner_offset" ->
         <<RAdd(call.min_point[1], RMul(R(x), scale)),
           RAdd(call.min_point[2], RMul(R(y), scale)),
           RAdd(call.min_point[3], RMul(R(z), scale))>>

\* The value the loop leaves at corner (x, y, z), which held old.
LoopValue(call, scale, x, y, z, old) ==
  LET p == LoopPoint(call, scale, x, y, z)
  IN  ClosureValue(call.f, p[1], p[2], p[3], old)

\* for x in 0..=size_x { for y in 0..=size_y { for z in 0..=size_z { .. } } }
CornerOrder(ch) ==
  [i \in 1..((ch.size_x + 1) * (ch.size_y + 1) * (ch.size_z + 1)) |->
     <<(i - 1) \div ((ch.size_y + 1) * (ch.size_z + 1)),
       ((i - 1) \div (ch.size_z + 1)) % (ch.size_y + 1),
       (i - 1) % (ch.size_z + 1)>>]

RECURSIVE LoopFrom(_, _, _, _, _)
\* The loop body run for corners i.. of order: the closure is called with the
\* corner's point (and slot), and the slot receives its value.
LoopFrom(ch, call, order, i, acc) ==
  IF i > Len(order) THEN acc
  ELSE LET c == order[i]
           p == LoopPoint(call, ch.scale, c[1], c[2], c[3])
           old == acc.data[c[3] + 1][c[2] + 1][c[1] + 1]
           new == ClosureValue(call.f, p[1], p[2], p[3], old)
       IN  LoopFrom(ch, call, order, i + 1,
                    [data |-> [acc.data EXCEPT ![c[3] + 1][c[2] + 1][c[1] + 1] = new],
                     calls |-> Append(acc.calls, [point |-> p, slot |-> c])])

\* The storage after the corner loop of call, and the closure calls it made.
LoopRun(ch, data, call) ==
  LoopFrom(ch, call, CornerOrder(ch), 1, [data |-> data, calls |-> <<>>])

ChInit ==
  /\ build \in {"debug", "release"}
  /\ holders = [h \in Holders |-> 0]
  /\ \/ /\ chunk = Chunk_default(1)
        /\ heap = [id \in AllocIds |-> IF id = 1 THEN Alloc(<<>>) ELSE Free]
        /\ last_op = [op |-> "default"]
     \/ \E s \in ChShapes :
          /\ chunk = Chunk_new(s[1], s[2], s[3], 1)
          /\ heap = [id \in AllocIds |->
                       IF id = 1 THEN Alloc(ZeroValues(s[1], s[2], s[3])) ELSE Free]
          /\ last_op = [op |-> "new"]
  /\ ops = 0
  /\ GsIdle /\ PlIdle /\ McIdle /\ MmIdle

ChRest == UNCHANGED <<build, gsVars, plVars, mcVars, mmVars>>

\* The Chunk is dropped (despawned) and Chunk::new makes another one.
Respawn(s) ==
  /\ ops < MaxOps
  /\ LET gone == Collect(Panicked, heap, holders)
         id == FreshId(gone)
     IN  /\ chunk' = Chunk_new(s[1], s[2], s[3], id)
         /\ heap' = [gone EXCEPT ![id] = Alloc(ZeroValues(s[1], s[2], s[3]))]
  /\ last_op' = [op |-> "new"]
  /\ ops' = ops + 1
  /\ UNCHANGED holders /\ ChRest

with_scale(scale) ==
  /\ ops < MaxOps /\ chunk.tag = "chunk"
  /\ chunk' = [chunk EXCEPT !.scale = scale]
  /\ last_op' = [op |-> "with_scale"]
  /\ ops' = ops + 1
  /\ UNCHANGED <<heap, holders>> /\ ChRest

with_threshold(threshold) ==
  /\ ops < MaxOps /\ chunk.tag = "chunk"
  /\ chunk' = [chunk EXCEPT !.threshold = threshold]
  /\ last_op' = [op |-> "with_threshold"]
  /\ ops' = ops + 1
  /\ UNCHANGED <<heap, holders>> /\ ChRest

\* The three debug_assert_eq! of with_values hold for storage data.
DimsAsserted(ch, data) ==
  /\ Len(data) = ch.size_z + 1
  /\ Len(data[1]) = ch.size_y + 1
  /\ Len(data[1][1]) = ch.size_x + 1

\* with_values(Arc::clone(&saved)) with the Arc holder h keeps.
with_values(h) ==
  /\ ops < MaxOps /\ chunk.tag = "chunk"
  /\ holders[h] # 0
  /\ LET ok == build = "release" \/ DimsAsserted(chunk, heap[holders[h]].data)
         next == IF ok THEN [chunk EXCEPT !.values = holders[h]] ELSE Panicked
     IN  /\ chunk' = next
         /\ heap' = Collect(next, heap, holders)
         /\ last_op' = [op |-> "with_values", panicked |-> ~ok]
  /\ ops' = ops + 1
  /\ UNCHANGED holders /\ ChRest

\* Chunk::set(x, y, z, v)
set(x, y, z, v) ==
  /\ ops < MaxOps /\ chunk.tag = "chunk"
  /\ LET vm == values_mut(chunk, heap, holders)
         data == vm.heap[vm.id].data
         ok == InRange(data, x, y, z)
         next == IF ok THEN [chunk EXCEPT !.values = vm.id] ELSE Panicked
         written == [vm.heap EXCEPT ![vm.id] =
                       Alloc([data EXCEPT ![z + 1][y + 1][x + 1] = v])]
     IN  /\ chunk' = next
         /\ heap' = Collect(next, IF ok THEN written ELSE vm.heap, holders)
         /\ last_op' = [op |-> "set", x |-> x, y |-> y, z |-> z, v |-> v,
                         cloned |-> vm.id # chunk.values, panicked |-> ~ok]
  /\ ops' = ops + 1
  /\ UNCHANGED holders /\ ChRest

\* The shared shape of fill, for_each_corner and for_each_corner_offset.
CornerLoop(call) ==
  /\ ops < MaxOps /\ chunk.tag = "chunk"
  /\ LET vm == values_mut(chunk, heap, holders)
         data == vm.heap[vm.id].data
         ok == ~LoopPanics(chunk, data)
         next == IF ok THEN [chunk EXCEPT !.values = vm.id] ELSE Panicked
         run == LoopRun(chunk, data, call)
         written == [vm.heap EXCEPT ![vm.id] = Alloc(run.data)]
     IN  /\ chunk' = next
         /\ heap' = Collect(next, IF ok THEN written ELSE vm.heap, holders)
         /\ last_op' = [call EXCEPT !.cloned = vm.id # chunk.values, !.panicked = ~ok,
                              !.calls = IF ok THEN run.calls ELSE <<>>]
  /\ ops' = ops + 1
  /\ UNCHANGED holders /\ ChRest

\* Chunk::fill(function): values[z][y][x] = function(x * scale, y * scale, z * scale)
fill(f) == CornerLoop(LoopCall("fill", f, Origin))

\* Chunk::for_each_corner(f): f(x, y, z, &mut values[z][y][x])
for_each_corner(f) == CornerLoop(LoopCall("for_each_corner", f, Origin))

\* Chunk::for_each_corner_offset(min_point, f)
for_each_corner_offset(min_point, f) ==
  CornerLoop(LoopCall("for_each_corner_offset", f, min_point))

\* Arc::clone(&chunk.values): the task of spawn_mesh_tasks, or the caller.
CloneArc(h) ==
  /\ chunk.tag = "chunk"
  /\ holders[h] = 0
  /\ holders' = [holders EXCEPT ![h] = chunk.values]
  /\ UNCHANGED <<chunk, heap, ops, last_op>> /\ ChRest

\* The holder drops its Arc (the task finished, the caller let go).
DropArc(h) ==
  /\ holders[h] # 0
  /\ holders' = [holders EXCEPT ![h] = 0]
  /\ heap' = Collect(chunk, heap, holders')
  /\ UNCHANGED <<chunk, ops, last_op>> /\ ChRest

\* The first corner of the Chunk, its last corner, and a point past its end.
SetPoints ==
  IF chunk.tag = "chunk"
    THEN {<<0, 0, 0>>, <<chunk.size_x, chunk.size_y, chunk.size_z>>,
          <<chunk.size_x + 1, 0, 0>>}
    ELSE {}

ChNext ==
  \/ \E s \in ChCubes : Respawn(s)
  \/ \E scale \in ChScales : with_scale(scale)
  \/ \E threshold \in ChThresholds : with_threshold(threshold)
  \/ \E h \in Holders : with_values(h)
  \/ \E p \in SetPoints : set(p[1], p[2], p[3], SetValue)
  \/ \E f \in ChClosures \ {[kind |-> "incr"]} : fill(f)
  \/ \E f \in ChClosures : for_each_corner(f)
  \/ \E min_point \in MinPoints, f \in ChClosures : for_each_corner_offset(min_point, f)
  \/ \E h \in Holders : CloneArc(h)
  \/ \E h \in Holders : DropArc(h)

SpecChunk == ChInit /\ [][ChNext]_vars

-----------------------------------------------------------------------------
(* Claims about the copy-on-write storage *)

WriteOps == {"set", "fill", "for_each_corner", "for_each_corner_offset"}

\* The last step was a write on the Chunk that returned.
Wrote == ops' = ops + 1 /\ last_op'.op \in WriteOps /\ ~last_op'.panicked

\* C3: once another holder has a handle to the storage, no set, fill,
\* for_each_corner or for_each_corner_offset on the owning Chunk changes a value
\* that holder reads; a write to shared storage goes to a fresh private clone
\* that becomes the owner's storage, and the owner then reads the written value.
C3_CopyOnWrite ==
  [][ /\ \A h \in Holders :
           holders[h] # 0 /\ holders'[h] = holders[h]
             => heap'[holders[h]] = heap[holders[h]]
      /\ Wrote =>
           /\ StrongCount(chunk, holders, chunk.values) > 1 =>
                /\ chunk'.values # chunk.values
                /\ heap[chunk'.values] = Free
                /\ StrongCount(chunk', holders', chunk'.values) = 1
           /\ StrongCount(chunk, holders, chunk.values) = 1 => chunk'.values = chunk.values
           /\ last_op'.op = "set" =>
                get(chunk', heap', last_op'.x, last_op'.y, last_op'.z) = last_op'.v
           /\ last_op'.op # "set" =>
                \A x \in 0..chunk.size_x, y \in 0..chunk.size_y, z \in 0..chunk.size_z :
                  get(chunk', heap', x, y, z)
                    = LoopValue(last_op', chunk.scale, x, y, z, get(chunk, heap, x, y, z)) ]_vars

\* A set on storage the other holder shares returned: the holder still reads
\* the old value at the written corner and the owner reads the new one.
C3_Witness ==
  /\ chunk.tag = "chunk"
  /\ last_op.op = "set" /\ ~last_op.panicked /\ last_op.cloned
  /\ \E h \in Holders :
       /\ holders[h] # 0 /\ holders[h] # chunk.values
       /\ heap[holders[h]].data[last_op.z + 1][last_op.y + 1][last_op.x + 1] # last_op.v
  /\ get(chunk, heap, last_op.x, last_op.y, last_op.z) = last_op.v

\* C4: the storage of a Chunk always has size_z+1 planes of size_y+1 rows of
\* size_x+1 values, whatever sequence of default, new, with_scale,
\* with_threshold, with_values, set, fill and corner loops produced it.
C4_StorageMatchesSizes ==
  chunk.tag = "chunk" =>
    LET data == heap[chunk.values].data
    IN  /\ Len(data) = chunk.size_z + 1
        /\ \A z \in 1..Len(data) :
             /\ Len(data[z]) = chunk.size_y + 1
             /\ \A y \in 1..Len(data[z]) : Len(data[z][y]) = chunk.size_x + 1

-----------------------------------------------------------------------------
(* plugin.rs: the auto_queue pipeline on_chunk_add, spawn_mesh_tasks,
   poll_mesh_tasks, upload_mesh over the entities of the world *)

Ents == 1..MaxEnts

\* Values given to max_tasks_per_frame.
ConfigValues == {0, 1, 2}

\* The components of an entity: Chunk (st = "alive"), its Added<Chunk> flag,
\* QueuedChunk, ComputeTask (a task id or 0), GeneratedMesh and Mesh3d (the id
\* of the task whose result they hold, or 0).
NoEntity(st) ==
  [st |-> st, added |-> FALSE, queued |-> FALSE, task |-> 0, generated |-> 0, mesh3d |-> 0]

Alive(es) == {e \in Ents : es[e].st = "alive"}

Min2(a, b) == IF a <= b THEN a ELSE b

\* Query<(Entity, &Chunk), (With<QueuedChunk>, Without<ComputeTask>, Without<Mesh3d>)>
Eligible(es) ==
  {e \in Alive(es) : es[e].queued /\ es[e].task = 0 /\ es[e].mesh3d = 0}

take_all(matched, n) == {matched}

\* query.iter().take(n): the first n matches of an iteration whose order the
\* ECS does not fix.
take(matched, n) ==
  {S \in SUBSET matched : Cardinality(S) = Min2(n, Cardinality(matched))}

Rank(e, S) == Cardinality({d \in S : d <= e})

after_poll_keep_task(ent) == [ent EXCEPT !.generated = ent.task]

\* commands.entity(entity).insert(generated_mesh).remove::<ComputeTask>()
after_poll(ent) == [ent EXCEPT !.generated = ent.task, !.task = 0]

PlInit ==
  /\ ents = [e \in Ents |-> NoEntity("unborn")]
  /\ config \in ConfigValues
  /\ phase = "Spawn"
  /\ added_ran = FALSE
  /\ tasks = <<>>
  /\ last_sys = [sys |-> "none"]
  /\ GsIdle /\ ChIdle /\ McIdle /\ MmIdle

PlRest == UNCHANGED <<gsVars, chVars, mcVars, mmVars>>

\* on_chunk_add is ordered against no set: it runs once per tick, at any point
\* of it; the tick ends when it and upload_mesh have both run.
on_chunk_add ==
  /\ ~added_ran
  /\ LET hit == {e \in Alive(ents) : ents[e].added /\ ~ents[e].queued}
     IN  /\ ents' = [e \in Ents |->
                       IF e \in hit THEN [ents[e] EXCEPT !.queued = TRUE, !.added = FALSE]
                       ELSE [ents[e] EXCEPT !.added = FALSE]]
         /\ last_sys' = [sys |-> "on_chunk_add", queued |-> hit]
  /\ IF phase = "Done"
       THEN phase' = "Spawn" /\ added_ran' = FALSE
       ELSE phase' = phase /\ added_ran' = TRUE
  /\ UNCHANGED <<config, tasks>> /\ PlRest

spawn_mesh_tasks ==
  /\ phase = "Spawn"
  /\ \E S \in take(Eligible(ents), config) :
       /\ ents' = [e \in Ents |->
                     IF e \in S THEN [ents[e] EXCEPT !.task = Len(tasks) + Rank(e, S)]
                     ELSE ents[e]]
       /\ tasks' = tasks \o [i \in 1..Cardinality(S) |->
                     [ent |-> CHOOSE e \in S : Rank(e, S) = i,
                      status |-> "running", taken |-> 0]]
       /\ last_sys' = [sys |-> "spawn_mesh_tasks", eligible |-> Eligible(ents),
                       started |-> S, max |-> config]
  /\ phase' = "Generate"
  /\ UNCHANGED <<config, added_ran>> /\ PlRest

poll_mesh_tasks_from_pool ==
  /\ phase = "Generate"
  /\ LET done == {t \in DOMAIN tasks :
                    /\ tasks[t].status \in {"finished", "dropped_finished"}
                    /\ ents[tasks[t].ent].st = "alive"}
         ready == {tasks[t].ent : t \in done}
         res(e) == CHOOSE t \in done :
                     tasks[t].ent = e /\ \A u \in done : tasks[u].ent = e => u <= t
         taken == {res(e) : e \in ready}
     IN  /\ ents' = [e \in Ents |->
                       IF e \in ready
                         THEN [ents[e] EXCEPT !.generated = res(e),
                                              !.task = IF @ = res(e) THEN 0 ELSE @]
                         ELSE ents[e]]
         /\ tasks' = [t \in DOMAIN tasks |->
                        IF t \in taken
                          THEN [tasks[t] EXCEPT !.status = "taken", !.taken = @ + 1]
                          ELSE tasks[t]]
         /\ last_sys' = [sys |-> "poll_mesh_tasks", taken |-> taken,
                         pending |-> {ents[e].task : e \in {d \in Alive(ents) : ents[d].task # 0} \ ready}]
  /\ phase' = "Upload"
  /\ UNCHANGED <<config, added_ran>> /\ PlRest

poll_mesh_tasks ==
  /\ phase = "Generate"
  /\ LET polled == {e \in Alive(ents) : ents[e].task # 0}
         ready == {e \in polled : tasks[ents[e].task].status = "finished"}
         taken == {ents[e].task : e \in ready}
     IN  /\ ents' = [e \in Ents |-> IF e \in ready THEN after_poll(ents[e]) ELSE ents[e]]
         /\ tasks' = [t \in DOMAIN tasks |->
                        IF t \in taken
                          THEN [tasks[t] EXCEPT !.status = "taken", !.taken = @ + 1]
                          ELSE tasks[t]]
         /\ last_sys' = [sys |-> "poll_mesh_tasks", taken |-> taken,
                         pending |-> {ents[e].task : e \in polled \ ready}]
  /\ phase' = "Upload"
  /\ UNCHANGED <<config, added_ran>> /\ PlRest

upload_mesh_keep_queued ==
  /\ phase = "Upload"
  /\ LET hit == {e \in Alive(ents) : ents[e].generated # 0 /\ ents[e].queued}
     IN  /\ ents' = [e \in Ents |->
                       IF e \in hit THEN [ents[e] EXCEPT !.mesh3d = ents[e].generated]
                       ELSE ents[e]]
         /\ last_sys' = [sys |-> "upload_mesh", uploaded |-> hit]
  /\ IF added_ran
       THEN phase' = "Spawn" /\ added_ran' = FALSE
       ELSE phase' = "Done" /\ added_ran' = added_ran
  /\ UNCHANGED <<config, tasks>> /\ PlRest

\* Query<(Entity, &GeneratedMesh), With<QueuedChunk>>
upload_mesh ==
  /\ phase = "Upload"
  /\ LET hit == {e \in Alive(ents) : ents[e].generated # 0 /\ ents[e].queued}
     IN  /\ ents' = [e \in Ents |->
                       IF e \in hit
                         THEN [ents[e] EXCEPT !.mesh3d = ents[e].generated, !.queued = FALSE]
                         ELSE ents[e]]
         /\ last_sys' = [sys |-> "upload_mesh", uploaded |-> hit]
  /\ IF added_ran
       THEN phase' = "Spawn" /\ added_ran' = FALSE
       ELSE phase' = "Done" /\ added_ran' = added_ran
  /\ UNCHANGED <<config, tasks>> /\ PlRest

\* The task pool completes the future of a spawned task.
TaskFinish(t) ==
  /\ tasks[t].status = "running"
  /\ tasks' = [tasks EXCEPT ![t].status = "finished"]
  /\ UNCHANGED <<ents, config, phase, added_ran, last_sys>> /\ PlRest

\* commands.spawn(Chunk::new(..))
SpawnChunk(e) ==
  /\ ents[e].st = "unborn"
  /\ \A d \in Ents : d < e => ents[d].st # "unborn"
  /\ ents' = [ents EXCEPT ![e] = [NoEntity("alive") EXCEPT !.added = TRUE]]
  /\ UNCHANGED <<config, phase, added_ran, tasks, last_sys>> /\ PlRest

\* config.max_tasks_per_frame = n
SetConfig(n) ==
  /\ config # n
  /\ config' = n
  /\ UNCHANGED <<ents, phase, added_ran, tasks, last_sys>> /\ PlRest

\* commands.entity(e).insert(QueuedChunk)
InsertQueued(e) ==
  /\ ents[e].st = "alive" /\ ~ents[e].queued
  /\ ents' = [ents EXCEPT ![e].queued = TRUE]
  /\ UNCHANGED <<config, phase, added_ran, tasks, last_sys>> /\ PlRest

PlNext ==
  \/ on_chunk_add
  \/ spawn_mesh_tasks
  \/ poll_mesh_tasks
  \/ upload_mesh
  \/ \E t \in DOMAIN tasks : TaskFinish(t)
  \/ \E e \in Ents : SpawnChunk(e)
  \/ \E n \in ConfigValues : SetConfig(n)
  \/ \E e \in Ents : InsertQueued(e)

SpecPipe == PlInit /\ [][PlNext]_vars

\* The pipeline with max_tasks_per_frame >= 1 throughout, under the scheduling
\* the App and the task pool give: every tick runs each system, and a spawned
\* task runs to completion.
PlLiveInit == PlInit /\ config >= 1

PlLiveNext ==
  \/ on_chunk_add
  \/ spawn_mesh_tasks
  \/ poll_mesh_tasks
  \/ upload_mesh
  \/ \E t \in DOMAIN tasks : TaskFinish(t)
  \/ \E e \in 1..MaxLiveEnts : SpawnChunk(e)
  \/ \E n \in ConfigValues \ {0} : SetConfig(n)
  \/ \E e \in Ents : InsertQueued(e)

PlFairness ==
  /\ WF_vars(on_chunk_add)
  /\ WF_vars(spawn_mesh_tasks)
  /\ WF_vars(poll_mesh_tasks)
  /\ WF_vars(upload_mesh)
  /\ \A t \in Ents : WF_vars(t \in DOMAIN tasks /\ TaskFinish(t))

SpecPipeLive == PlLiveInit /\ [][PlLiveNext]_vars /\ PlFairness

-----------------------------------------------------------------------------
(* plugin.rs: the pipeline when the application drops pending tasks *)

\* The tasks whose Task handle was dropped before its result was taken.
Dropped(ts) ==
  {t \in DOMAIN ts : ts[t].status \in {"dropped_running", "dropped_finished"}}

\* Drop of ComputeTask(Task<GeneratedMesh>): the handle is gone, the result
\* can no longer be obtained; a computation that is running is not stopped.
drop_task(ts, t) ==
  [ts EXCEPT ![t].status = IF @ = "running" THEN "dropped_running" ELSE "dropped_finished"]

\* commands.entity(e).remove::<ComputeTask>()
RemoveTask(e) ==
  /\ ents[e].st = "alive" /\ ents[e].task # 0
  /\ Cardinality(Dropped(tasks)) < MaxDrops
  /\ ents' = [ents EXCEPT ![e].task = 0]
  /\ tasks' = drop_task(tasks, ents[e].task)
  /\ UNCHANGED <<config, phase, added_ran, last_sys>> /\ PlRest

\* commands.entity(e).despawn() of an entity with a pending task: every
\* component of the entity is dropped.
Despawn(e) ==
  /\ ents[e].st = "alive" /\ ents[e].task # 0
  /\ Cardinality(Dropped(tasks)) < MaxDrops
  /\ ents' = [ents EXCEPT ![e] = NoEntity("despawned")]
  /\ tasks' = drop_task(tasks, ents[e].task)
  /\ UNCHANGED <<config, phase, added_ran, last_sys>> /\ PlRest

\* The computation of a dropped task runs to its end on the task pool.
DroppedTaskFinish(t) ==
  /\ tasks[t].status = "dropped_running"
  /\ tasks' = [tasks EXCEPT ![t].status = "dropped_finished"]
  /\ UNCHANGED <<ents, config, phase, added_ran, last_sys>> /\ PlRest

PlDropNext ==
  \/ on_chunk_add
  \/ spawn_mesh_tasks
  \/ poll_mesh_tasks
  \/ upload_mesh
  \/ \E t \in DOMAIN tasks : TaskFinish(t)
  \/ \E t \in DOMAIN tasks : DroppedTaskFinish(t)
  \/ \E e \in 1..MaxLiveEnts : SpawnChunk(e)
  \/ \E e \in Ents : RemoveTask(e)
  \/ \E e \in Ents : Despawn(e)

SpecPipeDrop == PlLiveInit /\ [][PlDropNext]_vars

-----------------------------------------------------------------------------
(* Claims about the pipeline *)

\* The step is the Generate set of a tick: poll_mesh_tasks and its commands.
PollStep == phase = "Generate" /\ phase' = "Upload"

\* The step is the Spawn set of a tick: spawn_mesh_tasks and its commands.
SpawnStep == phase = "Spawn" /\ phase' = "Generate"

\* C5: polling a task that has not finished changes nothing on its entity and
\* leaves the task in flight; a finished task's result is taken exactly once,
\* by the poll that inserts the GeneratedMesh and removes the ComputeTask
\* together, so no entity keeps a ComputeTask whose result was taken and no
\* other step inserts a GeneratedMesh.
C5_TakenExactlyOnce ==
  [][ /\ PollStep =>
           \A e \in Alive(ents) :
             ents[e].task # 0 =>
               LET t == ents[e].task
               IN  /\ tasks[t].status = "running" =>
                        ents'[e] = ents[e] /\ tasks'[t] = tasks[t]
                   /\ tasks[t].status = "finished" =>
                        /\ ents'[e].generated = t /\ ents'[e].task = 0
                        /\ tasks'[t].status = "taken" /\ tasks'[t].taken = 1
      /\ \A t \in DOMAIN tasks :
           tasks'[t].taken # tasks[t].taken =>
             PollStep /\ tasks[t].status = "finished" /\ tasks[t].taken = 0
      /\ \A t \in DOMAIN tasks' :
           tasks'[t].status = "taken" => \A e \in Ents : ents'[e].task # t
      /\ \A e \in Ents :
           ents'[e].generated # ents[e].generated =>
             /\ PollStep
             /\ ents'[e].generated = ents[e].task
             /\ tasks[ents[e].task].status = "finished" ]_vars

\* A poll took the result of one task while another polled task was still
\* running: the first entity has the GeneratedMesh and no ComputeTask, the
\* second still has its running task.
C5_Witness ==
  /\ last_sys.sys = "poll_mesh_tasks" /\ phase = "Upload"
  /\ \E e \in Alive(ents) :
       /\ ents[e].generated \in last_sys.taken /\ ents[e].task = 0
       /\ tasks[ents[e].generated].taken = 1
  /\ \E e \in Alive(ents) :
       /\ ents[e].task \in last_sys.pending
       /\ tasks[ents[e].task].status = "running"

\* C6: in a tick spawn_mesh_tasks starts tasks for at most max_tasks_per_frame
\* queued chunks, reading the value the configuration has in that tick; every
\* other queued chunk keeps QueuedChunk, gets no ComputeTask and is still
\* matched by the query afterwards.
C6_SpawnCap ==
  [][ SpawnStep =>
        LET matched == Eligible(ents)
            started == {e \in Ents : ents'[e].task # ents[e].task}
        IN  /\ started \subseteq matched
            /\ Cardinality(started) <= config
            /\ Len(tasks') = Len(tasks) + Cardinality(started)
            /\ \A e \in started :
                 /\ ents'[e].task > Len(tasks)
                 /\ tasks'[ents'[e].task] = [ent |-> e, status |-> "running", taken |-> 0]
            /\ \A e \in matched \ started :
                 ents'[e] = ents[e] /\ e \in Eligible(ents') ]_vars

\* spawn_mesh_tasks found more queued chunks than the limit: it started
\* exactly that many tasks and the rest are still queued without a task.
C6_Witness ==
  /\ last_sys.sys = "spawn_mesh_tasks" /\ phase = "Generate"
  /\ last_sys.max >= 1
  /\ Cardinality(last_sys.eligible) > last_sys.max
  /\ Cardinality(last_sys.started) = last_sys.max
  /\ \A e \in last_sys.started : ents[e].task # 0
  /\ \E e \in last_sys.eligible \ last_sys.started :
       ents[e].queued /\ ents[e].task = 0 /\ ents[e].mesh3d = 0

-----------------------------------------------------------------------------
(* Claims about the corner loops *)

\* The corners of the Chunk ch.
GridCorners(ch) == (0..ch.size_x) \X (0..ch.size_y) \X (0..ch.size_z)

\* The number of closure calls the last corner loop made for corner c.
CallsFor(calls, c) == Cardinality({i \in 1..Len(calls) : calls[i].slot = c})

\* C11: a fill(f) that returns leaves f(x*scale, y*scale, z*scale) at every
\* corner (x, y, z) of the grid and evaluates f once per corner;
\* for_each_corner_offset hands the closure min_point + index*scale with the
\* corner's slot, for_each_corner hands it the unscaled indices; the sizes, the
\* scale and the threshold are unchanged.
C11_CornerLoops ==
  [][ (Wrote /\ last_op'.op # "set") =>
        LET calls == last_op'.calls
            s == chunk.scale
            m == last_op'.min_point
        IN  /\ chunk'.size_x = chunk.size_x /\ chunk'.size_y = chunk.size_y
            /\ chunk'.size_z = chunk.size_z
            /\ chunk'.scale = chunk.scale /\ chunk'.threshold = chunk.threshold
            /\ Len(calls) = Cardinality(GridCorners(chunk))
            /\ \A c \in GridCorners(chunk) : CallsFor(calls, c) = 1
            /\ \A i \in 1..Len(calls) :
                 LET c == calls[i].slot
                     p == calls[i].point
                 IN  /\ c \in GridCorners(chunk)
                     /\ last_op'.op = "fill" =>
                          /\ p = <<RMul(R(c[1]), s), RMul(R(c[2]), s), RMul(R(c[3]), s)>>
                          /\ get(chunk', heap', c[1], c[2], c[3])
                               = ClosureValue(last_op'.f, p[1], p[2], p[3], 0)
                     /\ last_op'.op = "for_each_corner" =>
                          p = <<R(c[1]), R(c[2]), R(c[3])>>
                     /\ last_op'.op = "for_each_corner_offset" =>
                          p = <<RAdd(m[1], RMul(R(c[1]), s)), RAdd(m[2], RMul(R(c[2]), s)),
                                RAdd(m[3], RMul(R(c[3]), s))>>
                     /\ last_op'.op # "fill" =>
                          get(chunk', heap', c[1], c[2], c[3])
                            = ClosureValue(last_op'.f, p[1], p[2], p[3],
                                           get(chunk, heap, c[1], c[2], c[3])) ]_vars

\* A fill returned on a Chunk of scale 2 with more than one corner: the last
\* corner holds the closure's value at twice its indices.
C11_Witness ==
  /\ chunk.tag = "chunk" /\ chunk.scale = R(2)
  /\ chunk.size_x + chunk.size_y + chunk.size_z > 0
  /\ last_op.op = "fill" /\ ~last_op.panicked
  /\ Len(last_op.calls) = (chunk.size_x + 1) * (chunk.size_y + 1) * (chunk.size_z + 1)
  /\ get(chunk, heap, chunk.size_x, chunk.size_y, chunk.size_z)
       = 2 * chunk.size_x + 4 * chunk.size_y + 8 * chunk.size_z

-----------------------------------------------------------------------------
(* mesh.rs: one MarchMesh and the methods called on it *)

P3(x, y, z) == <<R(x), R(y), R(z)>>

\* Vertex triples: a proper triangle, one with two equal vertices, one with
\* three collinear vertices.
TriKinds ==
  { <<P3(0, 0, 0), P3(2, 0, 0), P3(0, 0, 1)>>,
    <<P3(1, 1, 0), P3(1, 1, 0), P3(0, 1, 0)>>,
    <<P3(0, 0, 0), P3(1, 0, 0), P3(2, 0, 0)>> }

RECURSIVE Flatten(_)
Flatten(ts) == IF ts = <<>> THEN <<>> ELSE Head(ts) \o Flatten(Tail(ts))

\* Vertex buffers: up to MaxTris triples followed by 0, 1 or 2 more vertices.
VertexInputs ==
  { Flatten(ts) \o rest :
      ts \in UNION {[1..n -> TriKinds] : n \in 0..MaxTris},
      rest \in {<<>>, <<P3(0, 1, 0)>>, <<P3(0, 1, 0), P3(1, 0, 1)>>} }

\* Index triples given to triangle_from_verts on a buffer of n vertices.
IndexInputs(n) ==
  {<<0, 1, 2>>, <<2, 1, 0>>, <<0, 0, 1>>, <<0, 1, n>>, <<n + 1, 0, 0>>}

MmInit ==
  /\ MmIdle
  /\ GsIdle /\ ChIdle /\ PlIdle /\ McIdle

MmRest == UNCHANGED <<gsVars, chVars, plVars, mcVars>>

MmRunning == Len(mm_hist) < MaxMeshOps /\ (mm_last.op # "none" => mm_last.res # "panic")

\* MarchMesh::set_vertices on the mesh new_empty() returned.
SetVertices(vertices) ==
  /\ mm_last.op = "none"
  /\ mm' = set_vertices(mm, vertices)
  /\ mm_last' = [op |-> "set_vertices", res |-> "ok", tris |-> mm.tris, args |-> <<>>]
  /\ UNCHANGED mm_hist /\ MmRest

TriangleFromVerts(x, y, z) ==
  /\ MmRunning /\ mm_last.op # "none"
  /\ LET r == triangle_from_verts(mm, x, y, z)
     IN  /\ mm' = r.mesh
         /\ mm_last' = [op |-> "triangle_from_verts",
                        res |-> IF r.res.ok THEN "ok" ELSE r.res.err,
                        tris |-> mm.tris, args |-> <<x, y, z>>]
  /\ mm_hist' = Append(mm_hist, "triangle_from_verts")
  /\ MmRest

CreateTriangles ==
  /\ MmRunning /\ mm_last.op # "none"
  /\ LET r == create_triangles(mm)
     IN  /\ mm' = r.mesh
         /\ mm_last' = [op |-> "create_triangles",
                        res |-> IF r.panic THEN "panic" ELSE "ok",
                        tris |-> mm.tris, args |-> <<>>]
  /\ mm_hist' = Append(mm_hist, "create_triangles")
  /\ MmRest

CreateNormals ==
  /\ MmRunning /\ mm_last.op # "none"
  /\ mm' = create_normals(mm)
  /\ mm_last' = [op |-> "create_normals", res |-> "ok", tris |-> mm.tris, args |-> <<>>]
  /\ mm_hist' = Append(mm_hist, "create_normals")
  /\ MmRest

MmNext ==
  \/ \E vertices \in VertexInputs : SetVertices(vertices)
  \/ \E t \in IndexInputs(Len(mm.vertices)) : TriangleFromVerts(t[1], t[2], t[3])
  \/ CreateTriangles
  \/ CreateNormals

SpecMesh == MmInit /\ [][MmNext]_vars

-----------------------------------------------------------------------------
(* Claims about the MarchMesh *)

\* The mesh was built the way GeneratedMesh::build does it, as far as hist.
Built(hist) == mm_last.op # "none" /\ mm_hist = hist /\ Len(mm.vertices) % 3 = 0

\* The index buffer: the triples of tris one after the other.
Indices(m) == [k \in 1..(3 * Len(m.tris)) |-> m.tris[((k - 1) \div 3) + 1][((k - 1) % 3) + 1]]

\* C12: on a buffer of 3n vertices create_triangles gives n triangles,
\* triangle k being (3k, 3k+1, 3k+2), so the indices read 0..3n-1 in order;
\* create_normals after it gives 3n normals, as many as there are vertices.
C12_SequentialIndices ==
  /\ (Built(<<"create_triangles">>) \/ Built(<<"create_triangles", "create_normals">>)) =>
       /\ 3 * Len(mm.tris) = Len(mm.vertices)
       /\ \A k \in 0..(Len(mm.tris) - 1) : mm.tris[k + 1] = <<3 * k, 3 * k + 1, 3 * k + 2>>
       /\ \A i \in 1..Len(mm.vertices) : Indices(mm)[i] = i - 1
       /\ mm_last.res = "ok"
  /\ Built(<<"create_triangles", "create_normals">>) =>
       /\ Len(mm.normals) = Len(mm.vertices)
       /\ Len(mm.normals) = 3 * Len(mm.tris)

\* Two triangles were built from six vertices and their normals created.
C12_Witness ==
  /\ Built(<<"create_triangles", "create_normals">>)
  /\ Len(mm.vertices) = 6
  /\ mm.tris = <<<<0, 1, 2>>, <<3, 4, 5>>>>
  /\ Len(mm.normals) = 6

\* C13: a triangle with an index that is not below the vertex count makes
\* mesh construction return InvalidIndex and leaves tris unchanged, both in a
\* direct triangle_from_verts and in create_triangles on a buffer whose length
\* is not a multiple of 3; with three indices in range one triple is appended.
C13_InvalidIndexReturned ==
  /\ mm_last.op = "triangle_from_verts" =>
       IF Len(mm.vertices) <= Max2(mm_last.args[1], Max2(mm_last.args[2], mm_last.args[3]))
         THEN mm_last.res = "InvalidIndex" /\ mm.tris = mm_last.tris
         ELSE mm_last.res = "ok" /\ mm.tris = Append(mm_last.tris, mm_last.args)
  /\ (mm_last.op = "create_triangles" /\ Len(mm.vertices) % 3 # 0) =>
       mm_last.res = "InvalidIndex" /\ mm.tris = mm_last.tris

-----------------------------------------------------------------------------
(* Claims about the extraction: scale *)

\* C14: the extraction of a grid with scale k has as many vertices, in the
\* same order, as the extraction of the same values and threshold with scale
\* 1, and each vertex is k times the corresponding one.
C14_ScaleLinear ==
  mc_pc = "merged" =>
    LET unit == SeqPassFrom([grid EXCEPT !.scale = R(1)], 0, 0, 0)
    IN  /\ Len(mesh.vertices) = Len(unit)
        /\ \A i \in 1..Len(unit) :
             mesh.vertices[i] = [k \in 1..3 |-> RMul(grid.scale, unit[i][k])]

\* A grid of scale 2 with a second slice was extracted and gave vertices that
\* are not all at the origin.
C14_Witness ==
  /\ mc_pc = "merged"
  /\ grid.scale = R(2)
  /\ grid.size_x >= 2
  /\ per_x[2] # <<>>
  /\ \E i \in 1..Len(mesh.vertices) : mesh.vertices[i] # Origin

-----------------------------------------------------------------------------
(* Claims about the pipeline: upload, progress, cancellation *)

\* The step is the Upload set of a tick: upload_mesh and its commands.
UploadStep == phase = "Upload" /\ phase' # "Upload"

\* C15: upload_mesh gives every entity that has a GeneratedMesh and a
\* QueuedChunk a Mesh3d and removes both the QueuedChunk and the GeneratedMesh,
\* so after the upload step the entity has neither.
C15_UploadRemovesBoth ==
  [][ UploadStep =>
        \A e \in Alive(ents) :
          (ents[e].generated # 0 /\ ents[e].queued) =>
            /\ ents'[e].mesh3d # 0
            /\ ~ents'[e].queued
            /\ ents'[e].generated = 0 ]_vars

\* The entity's mesh is up: Mesh3d, no ComputeTask, no QueuedChunk.
Meshed(e) == ents[e].mesh3d # 0 /\ ents[e].task = 0 /\ ~ents[e].queued

\* C16: with max_tasks_per_frame >= 1 and every spawned task completing,
\* every Chunk added to the world eventually has a Mesh3d, no ComputeTask and
\* no QueuedChunk, however many chunks are queued at once; within a tick the
\* sets run in the order Spawn, Generate, Upload.
C16_EveryChunkMeshed ==
  /\ \A e \in Ents : (ents[e].st = "alive") ~> Meshed(e)
  /\ [][ /\ phase' # phase =>
              <<phase, phase'>> \in {<<"Spawn", "Generate">>, <<"Generate", "Upload">>,
                                     <<"Upload", "Spawn">>, <<"Upload", "Done">>,
                                     <<"Done", "Spawn">>}
         /\ tasks' # tasks /\ Len(tasks') > Len(tasks) => SpawnStep
         /\ (\E e \in Ents : ents'[e].generated # ents[e].generated) => PollStep
         /\ (\E e \in Ents : ents'[e].mesh3d # ents[e].mesh3d) => UploadStep ]_vars

\* With a limit of one task per frame several entities were spawned, and each
\* of them has had its task and has its mesh.
C16_Witness ==
  /\ config = 1
  /\ \A e \in 1..MaxLiveEnts : ents[e].st = "alive" /\ Meshed(e)
  /\ \A t \in DOMAIN tasks : tasks[t].status = "taken"
  /\ Len(tasks) = MaxLiveEnts

-----------------------------------------------------------------------------
(* Claims about the normals *)

\* (b - a) x (c - b), component by component.
FaceCross(a, b, c) ==
  LET u == <<RSub(b[1], a[1]), RSub(b[2], a[2]), RSub(b[3], a[3])>>
      v == <<RSub(c[1], b[1]), RSub(c[2], b[2]), RSub(c[3], b[3])>>
  IN  <<RSub(RMul(u[2], v[3]), RMul(u[3], v[2])),
        RSub(RMul(u[3], v[1]), RMul(u[1], v[3])),
        RSub(RMul(u[1], v[2]), RMul(u[2], v[1]))>>

\* The squared length of w.
SqLen(w) == RAdd(RAdd(RMul(w[1], w[1]), RMul(w[2], w[2])), RMul(w[3], w[3]))

\* The flat normal of triangle (a, b, c): the cross product over its length,
\* the zero vector when the cross product is zero.
FaceNormal(a, b, c) ==
  LET w == FaceCross(a, b, c)
  IN  IF w = <<R(0), R(0), R(0)>>
        THEN [num |-> <<R(0), R(0), R(0)>>, sq |-> R(1)]
        ELSE [num |-> w, sq |-> SqLen(w)]

\* The normal expected for triangle k (from 0) of m.
NormalOfTri(m, k) ==
  FaceNormal(m.vertices[m.tris[k + 1][1] + 1], m.vertices[m.tris[k + 1][2] + 1],
             m.vertices[m.tris[k + 1][3] + 1])

\* C17: after create_normals the three normals of every triangle (a, b, c) are
\* equal, and equal to (b - a) x (c - b) over its length, or to the zero vector
\* when that cross product is zero (equal or collinear vertices), with no
\* error; in a mesh built from a vertex sequence they are the normals at the
\* triangle's own vertex indices.
C17_FlatNormals ==
  mm_last.op = "create_normals" =>
    /\ mm_last.res = "ok"
    /\ Len(mm.normals) = 3 * Len(mm.tris)
    /\ \A k \in 0..(Len(mm.tris) - 1) : \A j \in 1..3 :
         /\ mm.normals[3 * k + j] = NormalOfTri(mm, k)
         /\ Built(<<"create_triangles", "create_normals">>) =>
              mm.normals[mm.tris[k + 1][j] + 1] = NormalOfTri(mm, k)

\* Normals were created for a proper triangle and for a degenerate one: the
\* first has a unit normal, the second the zero vector.
C17_Witness ==
  /\ mm_last.op = "create_normals"
  /\ Built(<<"create_triangles", "create_normals">>)
  /\ Len(mm.tris) = 2
  /\ mm.normals[1] = [num |-> P3(0, -2, 0), sq |-> R(4)]
  /\ mm.normals[2] = mm.normals[1] /\ mm.normals[3] = mm.normals[1]
  /\ mm.normals[4] = [num |-> P3(0, 0, 0), sq |-> R(1)]

-----------------------------------------------------------------------------
(* Claims about the edge crossings *)

Voxels(g) == (0..(g.size_x - 1)) \X (0..(g.size_y - 1)) \X (0..(g.size_z - 1))

\* The 8 corner values of voxel v of g, in corner order.
VoxelValues(g, v) ==
  [i \in 1..8 |->
     g.values[v[3] + CornerOffset[i][3] + 1][v[2] + CornerOffset[i][2] + 1][v[1] + CornerOffset[i][1] + 1]]

\* The world position of corner i (from 1) of voxel v of g.
VoxelCorner(g, v, i) == [k \in 1..3 |-> RMul(g.scale, R(v[k] + CornerOffset[i][k]))]

\* The edges EDGE_TABLE selects for voxel v of g.
SelectedEdges(g, v) ==
  {e \in 0..11 : Bit(EDGE_TABLE[get_state(VoxelValues(g, v), g.threshold).val + 1], e) = 1}

\* The crossing points the code computes for voxel v of g.
VoxelEdgePoints(g, v) ==
  LET vals == VoxelValues(g, v)
      mask == EDGE_TABLE[get_state(vals, g.threshold).val + 1]
      ends == get_edge_endpoints(BinaryString(mask), CORNER_POINT_INDICES)
  IN  get_edge_midpoints(ends[1], ends[2],
                         get_corner_positions(Origin, v[1], v[2], v[3], g.scale),
                         vals, g.threshold)

\* The factor (threshold - v0) / (v1 - v0) of edge e of voxel v.
EdgeFactor(g, v, e) ==
  LET v0 == VoxelValues(g, v)[CORNER_POINT_INDICES[e + 1][1] + 1]
      v1 == VoxelValues(g, v)[CORNER_POINT_INDICES[e + 1][2] + 1]
  IN  RDiv(R(g.threshold - v0), R(v1 - v0))

\* C18: for every voxel and every edge EDGE_TABLE selects for its state, the
\* endpoint values are on opposite sides of the threshold (one <= threshold,
\* the other > threshold), so they differ, the factor t is in [0, 1], and the
\* crossing point is lerp(p0, p1, t), on the edge between p0 and p1.
C18_EdgesStraddle ==
  mc_pc = "merged" =>
  \A v \in Voxels(grid) :
    /\ DOMAIN VoxelEdgePoints(grid, v) = SelectedEdges(grid, v)
    /\ \A e \in SelectedEdges(grid, v) :
         LET i0 == CORNER_POINT_INDICES[e + 1][1] + 1
             i1 == CORNER_POINT_INDICES[e + 1][2] + 1
             v0 == VoxelValues(grid, v)[i0]
             v1 == VoxelValues(grid, v)[i1]
             p0 == VoxelCorner(grid, v, i0)
             p1 == VoxelCorner(grid, v, i1)
             t == EdgeFactor(grid, v, e)
             pe == VoxelEdgePoints(grid, v)[e]
         IN  /\ \/ v0 <= grid.threshold /\ v1 > grid.threshold
                \/ v1 <= grid.threshold /\ v0 > grid.threshold
             /\ v1 # v0
             /\ IsFinite(t) /\ RLe(R(0), t) /\ RLe(t, R(1))
             /\ pe = [k \in 1..3 |-> RAdd(p0[k], RMul(RSub(p1[k], p0[k]), t))]
             /\ OnSegment(pe, p0, p1)

\* An extracted grid has a voxel with a selected edge one of whose endpoint
\* values equals the threshold, so that the crossing is at that endpoint.
C18_Witness ==
  /\ mc_pc = "merged" /\ mesh.vertices # <<>>
  /\ \E v \in Voxels(grid) : \E e \in SelectedEdges(grid, v) :
       /\ \E i \in 1..2 :
            VoxelValues(grid, v)[CORNER_POINT_INDICES[e + 1][i] + 1] = grid.threshold
       /\ EdgeFactor(grid, v, e) \in {R(0), R(1)}

-----------------------------------------------------------------------------
(* Claims about dropped tasks *)

\* C19: once a pending task is dropped before its result was taken (its
\* ComputeTask removed or its entity despawned) the task stays dropped, its
\* result is never taken and no entity ever holds it as ComputeTask,
\* GeneratedMesh or Mesh3d; the step that drops it changes no other task and
\* no other entity, and a poll still takes every finished task an entity holds.
C19_DroppedNeverConsumed ==
  [][ /\ \A t \in Dropped(tasks) : t \in Dropped(tasks')
      /\ \A t \in Dropped(tasks') :
           /\ tasks'[t].taken = 0
           /\ \A e \in Ents :
                ents'[e].task # t /\ ents'[e].generated # t /\ ents'[e].mesh3d # t
      /\ \A t \in Dropped(tasks') \ Dropped(tasks) :
           /\ tasks[t].status \in {"running", "finished"} /\ tasks[t].taken = 0
           /\ \A u \in DOMAIN tasks \ {t} : tasks'[u] = tasks[u]
           /\ \A e \in Ents \ {tasks[t].ent} : ents'[e] = ents[e]
      /\ PollStep =>
           \A e \in Alive(ents) :
             (ents[e].task # 0 /\ tasks[ents[e].task].status = "finished") =>
               ents'[e].generated = ents[e].task /\ tasks'[ents[e].task].taken = 1
    ]_vars

\* A task was dropped by removing its ComputeTask and its computation finished
\* afterwards; its entity later got the mesh of a newer task, and the other
\* entity has its mesh too.
C19_Witness ==
  \E t \in DOMAIN tasks :
    /\ tasks[t].status = "dropped_finished" /\ tasks[t].taken = 0
    /\ ents[tasks[t].ent].st = "alive"
    /\ ents[tasks[t].ent].mesh3d > t
    /\ \E e \in Alive(ents) \ {tasks[t].ent} : ents[e].mesh3d # 0

-----------------------------------------------------------------------------
(* Claims about the tasks of one entity *)

\* The tasks of entity e whose result was not taken yet.
InFlight(e) == {t \in DOMAIN tasks : tasks[t].ent = e /\ tasks[t].status \in {"running", "finished"}}

\* An entity has at most one task in flight, the one its ComputeTask holds.
OneTaskInFlight ==
  \A e \in Ents : InFlight(e) \subseteq {ents[e].task} /\ Cardinality(InFlight(e)) <= 1

\* spawn_mesh_tasks starts tasks only for entities without ComputeTask and
\* without Mesh3d.
SpawnOnlyFresh ==
  [][ \A t \in DOMAIN tasks' \ DOMAIN tasks :
        /\ SpawnStep
        /\ ents[tasks'[t].ent].task = 0 /\ ents[tasks'[t].ent].mesh3d = 0
        /\ ents[tasks'[t].ent].queued ]_vars

\* C20: an entity has at most one task in flight; spawn_mesh_tasks never
\* starts a task for an entity that has a ComputeTask or a Mesh3d, also after
\* QueuedChunk is inserted again on an uploaded entity; and between a queueing
\* and its upload exactly one task is spawned for the entity, so that an
\* upload always uploads the result of a task spawned since the entity's
\* previous upload.
C20_OneTaskPerQueueing ==
  [][ /\ \A e \in Ents :
           /\ {t \in DOMAIN tasks' :
                 tasks'[t].ent = e /\ tasks'[t].status \in {"running", "finished"}}
                \subseteq {ents'[e].task}
      /\ \A t \in DOMAIN tasks' \ DOMAIN tasks :
           /\ SpawnStep
           /\ ents[tasks'[t].ent].task = 0 /\ ents[tasks'[t].ent].mesh3d = 0
      /\ UploadStep =>
           \A e \in Alive(ents) :
             (ents[e].generated # 0 /\ ents[e].queued) =>
               ents[e].mesh3d # ents[e].generated ]_vars

-----------------------------------------------------------------------------
(* Claims about repeated calls on the MarchMesh *)

\* The step is a call of the method op.
MeshCall(op) == mm_hist' = Append(mm_hist, op)

\* The triples create_triangles makes of a buffer of 3n vertices.
Triples(n) == [k \in 1..n |-> <<3 * (k - 1), 3 * (k - 1) + 1, 3 * (k - 1) + 2>>]

\* C21: create_normals replaces the stored normals: after every call,
\* however many came before, there are exactly 3 normals per triangle (the
\* face normal of triangle k at 3k, 3k+1, 3k+2), the triangles are untouched
\* and a repeated call changes nothing.  create_triangles does not clear the
\* triangle list: on 3n vertices it appends its n triples to the triangles
\* already there, so two calls leave 2n triangles and a create_normals after
\* them stores 6n normals for the 3n vertices.
C21_NormalsReplacedTrisAppended ==
  [][ /\ MeshCall("create_normals") =>
           /\ Len(mm'.normals) = 3 * Len(mm'.tris)
           /\ \A k \in 1..Len(mm'.tris) : \A j \in 1..3 :
                mm'.normals[3 * (k - 1) + j] = tri_normal(mm, k - 1)
           /\ mm'.tris = mm.tris /\ mm'.vertices = mm.vertices
           /\ mm_last.op = "create_normals" => mm' = mm
      /\ (MeshCall("create_triangles") /\ Len(mm.vertices) % 3 = 0) =>
           /\ mm'.tris = mm.tris \o Triples(Len(mm.vertices) \div 3)
           /\ mm'.normals = mm.normals /\ mm'.vertices = mm.vertices
           /\ mm_last'.res = "ok"
      /\ (mm_hist' = <<"create_triangles", "create_triangles">>
            /\ Len(mm'.vertices) % 3 = 0) =>
           3 * Len(mm'.tris) = 2 * Len(mm'.vertices)
      /\ (mm_hist' = <<"create_triangles", "create_triangles", "create_normals">>
            /\ Len(mm'.vertices) % 3 = 0) =>
           /\ 3 * Len(mm'.tris) = 2 * Len(mm'.vertices)
           /\ Len(mm'.normals) = 2 * Len(mm'.vertices)
      /\ (mm_hist' = <<"create_triangles", "create_normals", "create_normals">>
            /\ Len(mm'.vertices) % 3 = 0) =>
           /\ Len(mm'.normals) = Len(mm'.vertices)
           /\ Len(mm'.normals) = 3 * Len(mm'.tris) ]_vars

\* create_triangles ran twice on six vertices and create_normals after it:
\* four triangles, the two triples twice, and twelve normals.
C21_Witness ==
  /\ Built(<<"create_triangles", "create_triangles", "create_normals">>)
  /\ Len(mm.vertices) = 6
  /\ mm.tris = <<<<0, 1, 2>>, <<3, 4, 5>>, <<0, 1, 2>>, <<3, 4, 5>>>>
  /\ Len(mm.normals) = 12

=============================================================================
